---- MODULE Spec2Model ----
(***************************************************************************)
(* A model of the chordy pitch / interval algebra and of its enharmonic    *)
(* spelling selector (chromatic transposition).                            *)
(*                                                                         *)
(* The library is a set of pure functions over immutable values.  Each     *)
(* function is an operator computed the way the code computes it; each     *)
(* specification draws the arguments of a call and applies the functions,  *)
(* keeping arguments and results in the state.                             *)
(***************************************************************************)
EXTENDS Integers, Sequences, FiniteSets, TLC

VARIABLES
    pc,               \* position of the caller in the current scenario
    pitch,            \* transposition: the source Pitch
    semitone_offset,  \* transposition: the signed semitone offset (i8)
    result,           \* transposition: the returned Pitch, or a panic
    note,             \* note algebra: the NoteName operated on
    operand,          \* note algebra: the argument of the last operation
    derived,          \* note algebra: the value the operation produced
    followup,         \* note algebra: the value computed from `derived`
    readback,         \* note algebra: letter() / accidental() of a NoteName
    ia, ib, ic,       \* interval algebra: the three interval operands
    isum,             \* interval algebra: the values computed from them
    subject,          \* scales, chords, parsing: the value the call is made on
    argument,         \* scales, chords, parsing: the argument of the call
    outcome           \* scales, chords, parsing: what the call produced

vars == <<pc, pitch, semitone_offset, result, note, operand, derived,
          followup, readback, ia, ib, ic, isum, subject, argument, outcome>>

transposeVars == <<pitch, semitone_offset, result>>
noteVars      == <<note, operand, derived, followup, readback>>
intervalVars  == <<ia, ib, ic, isum>>
callVars      == <<subject, argument, outcome>>

\* The value of a variable that the running scenario does not use, or has
\* not computed yet.
Idle == [idle |-> TRUE]

-----------------------------------------------------------------------------
(* Bounds of the model                                                      *)

\* Largest absolute semitone offset handed to transpose.
MaxOffset == 12

\* Highest octave of a source pitch.  Octave 8 is the last in which a note
\* name has a MIDI number of at most 127.
MaxOctave == 8

-----------------------------------------------------------------------------
(* 8-bit signed arithmetic                                                  *)

\* The octave of MIDI note 0: midi_number() adds (octave + 2) * 12.
MidiBaseOctave == -2

\* The lowest octave of a source pitch: one below MidiBaseOctave, where B#
\* still has the MIDI number 0.
MinOctave == MidiBaseOctave - 1

I8Min == -128
I8Max == 127

FitsI8(x) == x >= I8Min /\ x <= I8Max

\* Two's-complement wrap of a mathematical integer into i8.
WrapI8(x) == ((x - I8Min) % 256) + I8Min

\* Rust's `/` on integers truncates toward zero.
TruncDiv(a, b) ==
    IF a >= 0 THEN a \div b ELSE -((-a) \div b)

\* Rust's `%` on integers takes the sign of the dividend.
TruncRem(a, b) == a - b * TruncDiv(a, b)

\* i8::rem_euclid: the non-negative remainder.
rem_euclid(a, b) == a % b

\* A value that stands for a panic (abort) with the given message.
Panic(msg) == [panic |-> msg]
IsPanic(x) == DOMAIN x = {"panic"}

-----------------------------------------------------------------------------
(* Letter                                                                   *)

\* Letter::all(): the letters in enum order; `letter as i8` is the position
\* in this order, counted from 0.
Letter_all == <<"C", "D", "E", "F", "G", "A", "B">>

Letters == {Letter_all[i] : i \in 1..7}

Letter_as_i8(letter) == (CHOOSE i \in 1..7 : Letter_all[i] = letter) - 1

Letter_base_midi_number(letter) ==
    CASE letter = "C" -> 0
      [] letter = "D" -> 2
      [] letter = "E" -> 4
      [] letter = "F" -> 5
      [] letter = "G" -> 7
      [] letter = "A" -> 9
      [] letter = "B" -> 11

Letter_next(letter) ==
    CASE letter = "C" -> "D"
      [] letter = "D" -> "E"
      [] letter = "E" -> "F"
      [] letter = "F" -> "G"
      [] letter = "G" -> "A"
      [] letter = "A" -> "B"
      [] letter = "B" -> "C"

Letter_prev(letter) ==
    CASE letter = "C" -> "B"
      [] letter = "D" -> "C"
      [] letter = "E" -> "D"
      [] letter = "F" -> "E"
      [] letter = "G" -> "F"
      [] letter = "A" -> "G"
      [] letter = "B" -> "A"

-----------------------------------------------------------------------------
(* Accidental                                                               *)

\* Accidental::all(), in the order the candidate scan visits them.
Accidental_all == <<"DoubleFlat", "Flat", "Natural", "Sharp", "DoubleSharp">>

Accidentals == {Accidental_all[i] : i \in 1..5}

\* The enum discriminant: `*self as i8`.
Accidental_semitone_offset(accidental) ==
    CASE accidental = "DoubleFlat"  -> -2
      [] accidental = "Flat"        -> -1
      [] accidental = "Natural"     -> 0
      [] accidental = "Sharp"       -> 1
      [] accidental = "DoubleSharp" -> 2

Accidental_penalty(accidental) ==
    CASE accidental = "Natural" -> 0
      [] accidental \in {"Sharp", "Flat"} -> 1
      [] accidental \in {"DoubleSharp", "DoubleFlat"} -> 3

is_sharp(accidental) == accidental \in {"Sharp", "DoubleSharp"}

is_flat(accidental) == accidental \in {"Flat", "DoubleFlat"}

-----------------------------------------------------------------------------
(* NoteName: one i8 coordinate on the line of fifths                        *)

\* The match of NoteName::new, row by row: row i is the (letter, accidental)
\* pair that is given the coordinate i - 16.
NoteName_table ==
    << <<"F", "DoubleFlat">>,  <<"C", "DoubleFlat">>,  <<"G", "DoubleFlat">>,
       <<"D", "DoubleFlat">>,  <<"A", "DoubleFlat">>,  <<"E", "DoubleFlat">>,
       <<"B", "DoubleFlat">>,
       <<"F", "Flat">>,        <<"C", "Flat">>,        <<"G", "Flat">>,
       <<"D", "Flat">>,        <<"A", "Flat">>,        <<"E", "Flat">>,
       <<"B", "Flat">>,
       <<"F", "Natural">>,     <<"C", "Natural">>,     <<"G", "Natural">>,
       <<"D", "Natural">>,     <<"A", "Natural">>,     <<"E", "Natural">>,
       <<"B", "Natural">>,
       <<"F", "Sharp">>,       <<"C", "Sharp">>,       <<"G", "Sharp">>,
       <<"D", "Sharp">>,       <<"A", "Sharp">>,       <<"E", "Sharp">>,
       <<"B", "Sharp">>,
       <<"F", "DoubleSharp">>, <<"C", "DoubleSharp">>, <<"G", "DoubleSharp">>,
       <<"D", "DoubleSharp">>, <<"A", "DoubleSharp">>, <<"E", "DoubleSharp">>,
       <<"B", "DoubleSharp">> >>

NoteName_new(letter, accidental) ==
    (CHOOSE i \in 1..35 : NoteName_table[i] = <<letter, accidental>>) - 16

\* What letter() and accidental() yield where the code aborts.
LetterPanic == "unreachable!()"
AccidentalPanic == "panic!(Invalid NoteName value)"

NoteName_from_fifths(fifths) == fifths

NoteName_fifths(name) == name

\* letter(): `(self.0 + 15) % 7` with Rust's remainder, which is negative
\* for a coordinate below -15 and then falls into unreachable!().
NoteName_letter(name) ==
    LET r == TruncRem(name + 15, 7)
    IN  CASE r = 0 -> "F"
          [] r = 1 -> "C"
          [] r = 2 -> "G"
          [] r = 3 -> "D"
          [] r = 4 -> "A"
          [] r = 5 -> "E"
          [] r = 6 -> "B"
          [] OTHER -> LetterPanic

\* accidental() with bands that include their upper end.
NoteName_accidental_closed_bands(name) ==
    CASE name >= -15 /\ name <= -8 -> "DoubleFlat"
      [] name > -8   /\ name <= -1 -> "Flat"
      [] name > -1   /\ name <= 6  -> "Natural"
      [] name > 6    /\ name <= 13 -> "Sharp"
      [] name > 13   /\ name <= 19 -> "DoubleSharp"
      [] OTHER -> AccidentalPanic

\* accidental(): bands of seven coordinates; any other coordinate panics.
NoteName_accidental(name) ==
    CASE name >= -15 /\ name < -8 -> "DoubleFlat"
      [] name >= -8  /\ name < -1 -> "Flat"
      [] name >= -1  /\ name < 6  -> "Natural"
      [] name >= 6   /\ name < 13 -> "Sharp"
      [] name >= 13  /\ name <= 19 -> "DoubleSharp"
      [] OTHER -> AccidentalPanic

\* The 35 note names that NoteName::new can build.
ValidNoteNames == {NoteName_new(l, a) : l \in Letters, a \in Accidentals}

\* base_midi_number() of the letter alone, the accidental left out.
NoteName_base_midi_number_letter_only(name) ==
    Letter_base_midi_number(NoteName_letter(name))

NoteName_base_midi_number(name) ==
    Letter_base_midi_number(NoteName_letter(name))
        + Accidental_semitone_offset(NoteName_accidental(name))

-----------------------------------------------------------------------------
(* Interval: a position on the line of fifths and an octave count           *)

Interval_new(fifths, octaves) == [fifths |-> fifths, octaves |-> octaves]

\* An interval between note names: the octave component is fixed at 0.
Interval_with_fifths(fifths) == Interval_new(fifths, 0)

\* The named constants, by the name the code uses for them.
IntervalConstants ==
    [PERFECT_UNISON     |-> Interval_new(0, 0),
     MINOR_SECOND       |-> Interval_new(-5, 0),
     MAJOR_SECOND       |-> Interval_new(2, 0),
     AUGMENTED_SECOND   |-> Interval_new(9, 0),
     MINOR_THIRD        |-> Interval_new(-3, 0),
     MAJOR_THIRD        |-> Interval_new(4, 0),
     DIMINISHED_FOURTH  |-> Interval_new(-8, 0),
     PERFECT_FOURTH     |-> Interval_new(-1, 0),
     AUGMENTED_FOURTH   |-> Interval_new(6, 0),
     DIMINISHED_FIFTH   |-> Interval_new(-6, 0),
     PERFECT_FIFTH      |-> Interval_new(1, 0),
     AUGMENTED_FIFTH    |-> Interval_new(8, 0),
     MINOR_SIXTH        |-> Interval_new(-4, 0),
     MAJOR_SIXTH        |-> Interval_new(3, 0),
     AUGMENTED_SIXTH    |-> Interval_new(10, 0),
     DIMINISHED_SEVENTH |-> Interval_new(-9, 0),
     MINOR_SEVENTH      |-> Interval_new(-2, 0),
     MAJOR_SEVENTH      |-> Interval_new(5, 0),
     OCTAVE             |-> Interval_new(0, 1),
     MINOR_NINTH        |-> Interval_new(-5, 1),
     MAJOR_NINTH        |-> Interval_new(2, 1),
     PERFECT_ELEVENTH   |-> Interval_new(-1, 1),
     PERFECT_TWELFTH    |-> Interval_new(1, 1),
     MINOR_THIRTEENTH   |-> Interval_new(-4, 1),
     MAJOR_THIRTEENTH   |-> Interval_new(3, 1)]

NamedIntervals == {IntervalConstants[n] : n \in DOMAIN IntervalConstants}

\* -Interval with the fifths negated and the octaves kept.
Interval_neg_fifths_only(a) == Interval_new(WrapI8(-a.fifths), a.octaves)

\* -Interval: both fields are negated.
Interval_neg(a) == Interval_new(WrapI8(-a.fifths), WrapI8(-a.octaves))

\* Interval + Interval: component-wise.
Interval_add(a, b) ==
    Interval_new(WrapI8(a.fifths + b.fifths), WrapI8(a.octaves + b.octaves))

\* The semitone size: ((fifths * 7) mod 12) + octaves * 12.
Interval_semitones(a) == ((a.fifths * 7) % 12) + a.octaves * 12

-----------------------------------------------------------------------------
(* NoteName as a torsor under Interval                                      *)

\* The lowest and the highest coordinate NoteName::new hands out.
NoteNameMin == -15
NoteNameMax == 19

\* Add<Interval> for NoteName: the fifths are added, the octaves ignored.
NoteName_add(name, interval) == WrapI8(name + interval.fifths)

\* NoteName - NoteName with the operands exchanged.
NoteName_sub_exchanged(name, other) == Interval_with_fifths(WrapI8(other - name))

\* Sub<NoteName> for NoteName: the interval of the coordinate difference.
NoteName_sub(name, other) == Interval_with_fifths(WrapI8(name - other))

\* Torsor::act and Torsor::difference, NoteName::transpose.
NoteName_act(name, interval) == NoteName_add(name, interval)
NoteName_difference(name, other) == NoteName_sub(name, other)

-----------------------------------------------------------------------------
(* Pitch: a NoteName and an i8 octave                                       *)

Pitch_new(letter, accidental, octave) ==
    [name |-> NoteName_new(letter, accidental), octave |-> octave]

\* midi_number() over the mathematical integers.
Pitch_midi_true(p) ==
    NoteName_base_midi_number(p.name) + (p.octave - MidiBaseOctave) * 12

\* midi_number() as the release build computes it: every i8 operation wraps.
Pitch_midi_number(p) ==
    WrapI8(NoteName_base_midi_number(p.name) + WrapI8(WrapI8(p.octave + 2) * 12))

\* TRUE iff an i8 operation of midi_number() overflows (a debug build aborts).
Pitch_midi_overflows(p) ==
    \/ ~FitsI8(p.octave + 2)
    \/ ~FitsI8(WrapI8(p.octave + 2) * 12)
    \/ ~FitsI8(NoteName_base_midi_number(p.name) + WrapI8(WrapI8(p.octave + 2) * 12))

is_suspicious_spelling(p) ==
    <<NoteName_letter(p.name), NoteName_accidental(p.name)>>
        \in {<<"B", "Sharp">>, <<"E", "Sharp">>, <<"C", "Flat">>, <<"F", "Flat">>}

-----------------------------------------------------------------------------
(* ChromaticTransposer: the scoring functions                               *)

interval_penalty(from, to) ==
    LET letter_diff == rem_euclid(Letter_as_i8(NoteName_letter(to.name))
                                  - Letter_as_i8(NoteName_letter(from.name)), 7)
        semitone_diff == WrapI8(Pitch_midi_number(to) - Pitch_midi_number(from))
        ld == letter_diff
        sd == semitone_diff
    IN  CASE ld = 0 /\ sd = 0 -> 0
          [] (ld = 1 /\ sd = 1)  \/ (ld = 6 /\ sd = -1)  -> 0
          [] (ld = 1 /\ sd = 2)  \/ (ld = 6 /\ sd = -2)  -> 0
          [] (ld = 2 /\ sd = 3)  \/ (ld = 5 /\ sd = -3)  -> 0
          [] (ld = 2 /\ sd = 4)  \/ (ld = 5 /\ sd = -4)  -> 0
          [] (ld = 3 /\ sd = 5)  \/ (ld = 4 /\ sd = -5)  -> 0
          [] (ld = 4 /\ sd = 6)  \/ (ld = 3 /\ sd = -6)  -> 1
          [] (ld = 4 /\ sd = 7)  \/ (ld = 3 /\ sd = -7)  -> 0
          [] (ld = 5 /\ sd = 8)  \/ (ld = 2 /\ sd = -8)  -> 0
          [] (ld = 5 /\ sd = 9)  \/ (ld = 2 /\ sd = -9)  -> 0
          [] (ld = 6 /\ sd = 10) \/ (ld = 1 /\ sd = -10) -> 0
          [] (ld = 6 /\ sd = 11) \/ (ld = 1 /\ sd = -11) -> 0
          [] (ld = 0 /\ sd = 12) \/ (ld = 0 /\ sd = -12) -> 0
          [] OTHER ->
               IF sd \in {6, -6} THEN 1
               ELSE IF sd \in {1, -1, 2, -2} THEN 2
               ELSE 4

RECURSIVE StepLetter(_, _, _)
\* The loop of expected_letter: `steps` times next() or prev().
StepLetter(letter, direction, steps) ==
    IF steps = 0 THEN letter
    ELSE StepLetter(IF direction > 0 THEN Letter_next(letter)
                                     ELSE Letter_prev(letter),
                    direction, steps - 1)

\* i8::abs; abs(-128) is left to the callers, which never pass it.
Abs(x) == IF x < 0 THEN -x ELSE x

expected_letter(from, offset) ==
    LET direction == IF offset >= 0 THEN 1 ELSE -1
        a == Abs(offset)
        steps == CASE a = 0 -> 0
                   [] a \in {1, 2} -> 1
                   [] a \in {3, 4} -> 2
                   [] a = 5 -> 3
                   [] a \in {6, 7} -> 4
                   [] a \in {8, 9} -> 5
                   [] a \in {10, 11} -> 6
                   [] OTHER -> 7
    IN  StepLetter(from, direction, steps)

\* flat_vs_sharp_bias with no bias for either direction.
flat_vs_sharp_bias_none(accidental, offset) == 0

flat_vs_sharp_bias(accidental, offset) ==
    CASE offset < 0 /\ accidental \in {"Flat", "DoubleFlat"} -> 0
      [] offset > 0 /\ accidental \in {"Sharp", "DoubleSharp"} -> 0
      [] OTHER -> IF accidental = "Natural" THEN 0 ELSE 2

-----------------------------------------------------------------------------
(* ChromaticTransposer::transpose: the 35-candidate scan                    *)

I32Max == 2147483647

\* Option::None of best_pitch.
None == [none |-> TRUE]

target_midi(p, offset) == WrapI8(Pitch_midi_number(p) + offset)

candidate_octave(p, offset) == WrapI8(TruncDiv(target_midi(p, offset), 12) - 2)

\* `semitone`: the raw value of the candidate at the estimated octave.
candidate_semitone(p, offset, letter, accidental) ==
    WrapI8(WrapI8(Letter_base_midi_number(letter)
                  + Accidental_semitone_offset(accidental))
           + WrapI8(12 * WrapI8(candidate_octave(p, offset) + 2)))

\* pitch_guess after the octave correction by diff.
pitch_guess(p, offset, letter, accidental) ==
    LET co   == candidate_octave(p, offset)
        diff == WrapI8(candidate_semitone(p, offset, letter, accidental)
                       - target_midi(p, offset))
        g    == Pitch_new(letter, accidental, co)
    IN  IF diff > 6 THEN [g EXCEPT !.octave = WrapI8(co - 1)]
        ELSE IF diff < -6 THEN [g EXCEPT !.octave = WrapI8(co + 1)]
        ELSE g

\* survives, comparing pitch classes only (the octave is not checked).
survives_pitch_class_only(p, offset, letter, accidental) ==
    (Pitch_midi_number(pitch_guess(p, offset, letter, accidental))
        - target_midi(p, offset)) % 12 = 0

\* A candidate survives iff its final MIDI number equals the target.
survives(p, offset, letter, accidental) ==
    Pitch_midi_number(pitch_guess(p, offset, letter, accidental))
        = target_midi(p, offset)

\* TRUE iff some i8 operation on the way to the filter overflows for this
\* candidate; a build with overflow checks aborts there.
candidate_overflows(p, offset, letter, accidental) ==
    LET t    == target_midi(p, offset)
        co   == candidate_octave(p, offset)
        base == Letter_base_midi_number(letter)
                    + Accidental_semitone_offset(accidental)
        sem  == candidate_semitone(p, offset, letter, accidental)
        diff == WrapI8(sem - t)
    IN  \/ ~FitsI8(TruncDiv(t, 12) - 2)
        \/ ~FitsI8(co + 2)
        \/ ~FitsI8(12 * WrapI8(co + 2))
        \/ ~FitsI8(WrapI8(base) + WrapI8(12 * WrapI8(co + 2)))
        \/ ~FitsI8(sem - t)
        \/ (diff > 6 /\ ~FitsI8(co - 1))
        \/ (diff < -6 /\ ~FitsI8(co + 1))
        \/ Pitch_midi_overflows(pitch_guess(p, offset, letter, accidental))

total_penalty(p, offset, letter, accidental) ==
    LET guess == pitch_guess(p, offset, letter, accidental)
        interval_class_penalty == interval_penalty(p, guess)
        spelling_penalty ==
            IF NoteName_accidental(p.name) # accidental
            THEN Accidental_penalty(accidental) ELSE 0
        letter_distance ==
            rem_euclid(Letter_as_i8(NoteName_letter(guess.name))
                       - Letter_as_i8(NoteName_letter(p.name)), 7)
        unnatural_motion_penalty ==
            IF letter_distance = 6 \/ letter_distance = 0 THEN 2 ELSE 0
        enharmonic_suspicion_penalty ==
            IF is_suspicious_spelling(guess) THEN 3 ELSE 0
        expected == expected_letter(NoteName_letter(p.name), offset)
        letter_bias_penalty == IF letter # expected THEN 2 ELSE 0
        direction_bias_penalty == flat_vs_sharp_bias(accidental, offset)
    IN  interval_class_penalty + spelling_penalty + unnatural_motion_penalty
          + enharmonic_suspicion_penalty + letter_bias_penalty
          + direction_bias_penalty

\* polarity_guard left out: every candidate may replace best_pitch.
polarity_guard_absent(p, offset, accidental) == offset # 0

\* polarity_guard with the downward half left out.
polarity_guard_upward_only(p, offset, accidental) ==
    \/ offset < 0
    \/ offset > 0
         /\ (~is_flat(accidental) \/ is_flat(NoteName_accidental(p.name)))

\* The polarity guard on replacing best_pitch.
polarity_guard(p, offset, accidental) ==
    \/ offset < 0
         /\ (~is_sharp(accidental) \/ is_sharp(NoteName_accidental(p.name)))
    \/ offset > 0
         /\ (~is_flat(accidental) \/ is_flat(NoteName_accidental(p.name)))

\* scan_step with the comparison of the penalties inverted.
scan_step_inverted(p, offset, letter, accidental, best) ==
    IF ~survives(p, offset, letter, accidental) THEN best
    ELSE LET total == total_penalty(p, offset, letter, accidental)
         IN  IF best.best_pitch = None \/ total >= best.best_score
             THEN [best_pitch |->
                       IF polarity_guard(p, offset, accidental)
                       THEN pitch_guess(p, offset, letter, accidental)
                       ELSE best.best_pitch,
                   best_score |-> total]
             ELSE best

\* One iteration of the inner loop on the running (best_pitch, best_score).
scan_step(p, offset, letter, accidental, best) ==
    IF ~survives(p, offset, letter, accidental) THEN best
    ELSE LET total == total_penalty(p, offset, letter, accidental)
         IN  IF total <= best.best_score
             THEN [best_pitch |->
                       IF polarity_guard(p, offset, accidental)
                       THEN pitch_guess(p, offset, letter, accidental)
                       ELSE best.best_pitch,
                   best_score |-> total]
             ELSE best

\* The candidates in scan order: letters outermost, accidentals innermost.
candidate_letter(i) == Letter_all[((i - 1) \div 5) + 1]
candidate_accidental(i) == Accidental_all[((i - 1) % 5) + 1]

NumCandidates == Len(Letter_all) * Len(Accidental_all)

RECURSIVE scan(_, _, _)
\* The running best after the first n candidates.
scan(p, offset, n) ==
    IF n = 0 THEN [best_pitch |-> None, best_score |-> I32Max]
    ELSE scan_step(p, offset, candidate_letter(n), candidate_accidental(n),
                   scan(p, offset, n - 1))

\* transpose() without the early return on a zero offset.
transpose_without_zero_return(p, offset) ==
    LET best == scan(p, offset, NumCandidates)
    IN  IF best.best_pitch = None
        THEN Panic("No valid pitch spelling found")
        ELSE best.best_pitch

\* transpose() where every i8 operation wraps (a release build).
transpose(p, offset) ==
    IF offset = 0 THEN p
    ELSE LET best == scan(p, offset, NumCandidates)
         IN  IF best.best_pitch = None
             THEN Panic("No valid pitch spelling found")
             ELSE best.best_pitch

\* TRUE iff transpose() hits an i8 overflow (a debug build aborts on it).
transpose_overflows(p, offset) ==
    /\ offset # 0
    /\ \/ Pitch_midi_overflows(p)
       \/ ~FitsI8(Pitch_midi_number(p) + offset)
       \/ \E i \in 1..NumCandidates :
             candidate_overflows(p, offset, candidate_letter(i),
                                 candidate_accidental(i))

\* The outcomes of transpose() over the builds of the crate.
transpose_outcomes(p, offset) ==
    {transpose(p, offset)}
        \cup (IF transpose_overflows(p, offset)
              THEN {Panic("attempt to add with overflow")} ELSE {})

-----------------------------------------------------------------------------
(* Pitch::transpose: the method of Pitch, with its own loop                 *)

\* Pitch::transpose as a build without overflow checks alone computes it.
Pitch_transpose_release_only(p, offset) == {transpose(p, offset)}

\* Pitch::transpose(&self, semitone_offset), also reached through
\* Pitch + i8 and Pitch += i8: the outcomes over the builds of the crate.
\* Every i8 operation wraps; a build with overflow checks aborts when one
\* of them leaves the i8 range.
Pitch_transpose(p, offset) ==
    LET target == WrapI8(Pitch_midi_number(p) + offset)
        octave == WrapI8(TruncDiv(target, 12) - 2)
        base_index(i) == Letter_base_midi_number(Letter_all[((i - 1) \div 5) + 1])
        accidental(i) == Accidental_all[((i - 1) % 5) + 1]
        semitone(i) ==
            WrapI8(WrapI8(base_index(i) + Accidental_semitone_offset(accidental(i)))
                   + WrapI8(12 * WrapI8(octave + 2)))
        diff(i) == WrapI8(semitone(i) - target)
        pitch_guess_of(i) ==
            [name |-> NoteName_new(Letter_all[((i - 1) \div 5) + 1], accidental(i)),
             octave |-> IF diff(i) > 6 THEN WrapI8(octave - 1)
                        ELSE IF diff(i) < -6 THEN WrapI8(octave + 1)
                        ELSE octave]
        total(i) ==
            LET g == pitch_guess_of(i)
                letter_distance ==
                    rem_euclid(Letter_as_i8(NoteName_letter(g.name))
                               - Letter_as_i8(NoteName_letter(p.name)), 7)
            IN  interval_penalty(p, g)
                + (IF NoteName_accidental(p.name) # accidental(i)
                   THEN Accidental_penalty(accidental(i)) ELSE 0)
                + (IF letter_distance = 6 \/ letter_distance = 0 THEN 2 ELSE 0)
                + (IF is_suspicious_spelling(g) THEN 3 ELSE 0)
                + (IF NoteName_letter(g.name)
                        # expected_letter(NoteName_letter(p.name), offset)
                   THEN 2 ELSE 0)
                + flat_vs_sharp_bias(accidental(i), offset)
        replaces(i) ==
            \/ offset < 0 /\ (~is_sharp(accidental(i))
                               \/ is_sharp(NoteName_accidental(p.name)))
            \/ offset > 0 /\ (~is_flat(accidental(i))
                               \/ is_flat(NoteName_accidental(p.name)))
        best[i \in 0..35] ==
            IF i = 0 THEN [best_pitch |-> None, best_score |-> I32Max]
            ELSE IF Pitch_midi_number(pitch_guess_of(i)) # target
                 THEN best[i - 1]
            ELSE IF total(i) <= best[i - 1].best_score
                 THEN [best_pitch |-> IF replaces(i) THEN pitch_guess_of(i)
                                      ELSE best[i - 1].best_pitch,
                       best_score |-> total(i)]
                 ELSE best[i - 1]
        unwrapped(i) ==
            {TruncDiv(target, 12) - 2, octave + 2, 12 * WrapI8(octave + 2),
             base_index(i) + Accidental_semitone_offset(accidental(i)),
             WrapI8(base_index(i) + Accidental_semitone_offset(accidental(i)))
                 + WrapI8(12 * WrapI8(octave + 2)),
             semitone(i) - target,
             IF diff(i) > 6 THEN octave - 1
             ELSE IF diff(i) < -6 THEN octave + 1 ELSE octave}
        overflows ==
            \/ Pitch_midi_overflows(p)
            \/ ~FitsI8(Pitch_midi_number(p) + offset)
            \/ \E i \in 1..35 :
                  \/ \E x \in unwrapped(i) : ~FitsI8(x)
                  \/ Pitch_midi_overflows(pitch_guess_of(i))
    IN  IF offset = 0 THEN {p}
        ELSE {IF best[35].best_pitch = None
              THEN Panic("No valid pitch spelling found")
              ELSE best[35].best_pitch}
             \cup (IF overflows THEN {Panic("attempt to add with overflow")}
                   ELSE {})

-----------------------------------------------------------------------------
(* Scenario: one call of transpose(pitch, semitone_offset)                  *)

\* MIDI numbers are the non-negative i8 values; C-2 is note 0.
InMidiRange(m) == m >= 0 /\ m <= I8Max

SourcePitches ==
    {Pitch_new(l, a, o) : l \in Letters, a \in Accidentals,
                          o \in MinOctave..MaxOctave}

Offsets == (-MaxOffset)..MaxOffset

\* The calls the scenario makes: a zero offset on any pitch, a non-zero
\* offset on a pitch in MIDI range whose target is in MIDI range too.
ValidCall(p, offset) ==
    \/ offset = 0
    \/ /\ InMidiRange(Pitch_midi_true(p))
       /\ InMidiRange(Pitch_midi_true(p) + offset)

InitTranspose ==
    /\ pc = "call"
    /\ pitch \in SourcePitches
    /\ semitone_offset \in Offsets
    /\ ValidCall(pitch, semitone_offset)
    /\ result = Idle
    /\ note = Idle /\ operand = Idle /\ derived = Idle
    /\ followup = Idle /\ readback = Idle
    /\ ia = Idle /\ ib = Idle /\ ic = Idle /\ isum = Idle
    /\ subject = Idle /\ argument = Idle /\ outcome = Idle

\* The call returns a pitch or aborts.
Transpose ==
    /\ pc = "call"
    /\ result' \in transpose_outcomes(pitch, semitone_offset)
    /\ pc' = "returned"
    /\ UNCHANGED <<pitch, semitone_offset>>
    /\ UNCHANGED noteVars
    /\ UNCHANGED intervalVars
    /\ UNCHANGED callVars

\* The same call made on the pitch itself: pitch.transpose(offset),
\* pitch + offset or pitch += offset.
PitchTranspose ==
    /\ pc = "call"
    /\ result' \in Pitch_transpose(pitch, semitone_offset)
    /\ pc' = "returned_by_pitch"
    /\ UNCHANGED <<pitch, semitone_offset>>
    /\ UNCHANGED noteVars
    /\ UNCHANGED intervalVars
    /\ UNCHANGED callVars

NextTranspose == Transpose \/ PitchTranspose

SpecTranspose == InitTranspose /\ [][NextTranspose]_vars

Returned == pc = "returned"
ReturnedPitch == pc = "returned" /\ ~IsPanic(result)

-----------------------------------------------------------------------------
(* Properties of transpose                                                  *)

NoSpellingPanic == Panic("No valid pitch spelling found")

\* The candidates of the scan, as indices 1..35 in scan order.
Candidates == 1..NumCandidates

Survivor(i) ==
    survives(pitch, semitone_offset, candidate_letter(i), candidate_accidental(i))

Admitted(i) ==
    polarity_guard(pitch, semitone_offset, candidate_accidental(i))

PenaltyOf(i) ==
    total_penalty(pitch, semitone_offset, candidate_letter(i),
                  candidate_accidental(i))

\* The total penalty the scan gave to the returned spelling.
ResultPenalty ==
    total_penalty(pitch, semitone_offset, NoteName_letter(result.name),
                  NoteName_accidental(result.name))

\* C1: for every in-range source pitch and every non-zero offset with an
\* in-range target, the scan ends with a selected candidate: the call never
\* ends in the panic 'No valid pitch spelling found'.
C1_NoSpellingPanicUnreachable ==
    (Returned /\ semitone_offset # 0) => result # NoSpellingPanic

\* C2: whenever transpose returns a pitch, its MIDI number is the source's
\* MIDI number plus the offset.
C2_ReturnedPitchAtTarget ==
    ReturnedPitch =>
        Pitch_midi_true(result) = Pitch_midi_true(pitch) + semitone_offset

\* C2 witness: a call that returned a pitch in another octave than the source.
C2_Witness ==
    /\ ReturnedPitch
    /\ semitone_offset = -1
    /\ result.octave = pitch.octave - 1

\* C3 (as claimed): the returned pitch has the minimum total penalty of all
\* candidates whose absolute value equals the target.
C3_ReturnedPitchHasMinimumPenalty ==
    (ReturnedPitch /\ semitone_offset # 0) =>
        \A i \in Candidates : Survivor(i) => ResultPenalty <= PenaltyOf(i)

\* C3 (amended): the returned pitch has the minimum total penalty of the
\* candidates at the target that the polarity guard admits.
C3_ReturnedPitchHasMinimumAdmittedPenalty ==
    (ReturnedPitch /\ semitone_offset # 0) =>
        \A i \in Candidates :
            (Survivor(i) /\ Admitted(i)) => ResultPenalty <= PenaltyOf(i)

\* C3 witness: the returned pitch beats another admitted candidate, while a
\* candidate the guard rejects has a smaller penalty than the returned pitch.
C3_Witness ==
    /\ ReturnedPitch
    /\ semitone_offset # 0
    /\ \E i \in Candidates :
           Survivor(i) /\ Admitted(i) /\ ResultPenalty < PenaltyOf(i)
    /\ \E j \in Candidates :
           Survivor(j) /\ ~Admitted(j) /\ PenaltyOf(j) < ResultPenalty

\* A call of transpose on the given spelling and octave has returned.
Called(letter, accidental, octave, offset) ==
    /\ Returned
    /\ pitch = Pitch_new(letter, accidental, octave)
    /\ semitone_offset = offset

\* C4: the conventional spelling scenarios: C4 +1 is C#4, B4 +1 is C5,
\* C4 -1 is B3, F#4 +1 is G4, G4 +12 is G5, G4 +7 is D5.
C4_ConventionalSpellings ==
    /\ Called("C", "Natural", 4, 1)  => result = Pitch_new("C", "Sharp", 4)
    /\ Called("B", "Natural", 4, 1)  => result = Pitch_new("C", "Natural", 5)
    /\ Called("C", "Natural", 4, -1) => result = Pitch_new("B", "Natural", 3)
    /\ Called("F", "Sharp", 4, 1)    => result = Pitch_new("G", "Natural", 4)
    /\ Called("G", "Natural", 4, 12) => result = Pitch_new("G", "Natural", 5)
    /\ Called("G", "Natural", 4, 7)  => result = Pitch_new("D", "Natural", 5)

\* C4 witness: C4 transposed by +1 has returned C#4.
C4_Witness ==
    /\ Called("C", "Natural", 4, 1)
    /\ result = Pitch_new("C", "Sharp", 4)

\* C5: polarity of the result: going down from a source that is not
\* sharp-type never returns a sharp-type accidental, and going up from a
\* source that is not flat-type never returns a flat-type accidental.
C5_ResultPolarity ==
    ReturnedPitch =>
        /\ (semitone_offset < 0 /\ ~is_sharp(NoteName_accidental(pitch.name)))
              => ~is_sharp(NoteName_accidental(result.name))
        /\ (semitone_offset > 0 /\ ~is_flat(NoteName_accidental(pitch.name)))
              => ~is_flat(NoteName_accidental(result.name))

\* C5 witness: a downward call from a source that is not sharp-type returned
\* a pitch although a sharp-type candidate at the target scored better.
C5_Witness ==
    /\ ReturnedPitch
    /\ semitone_offset < 0
    /\ ~is_sharp(NoteName_accidental(pitch.name))
    /\ \E i \in Candidates :
           /\ Survivor(i)
           /\ is_sharp(candidate_accidental(i))
           /\ PenaltyOf(i) < ResultPenalty

\* C6: transposing by 0 semitones returns the identical pitch.
C6_ZeroOffsetIsIdentity ==
    (Returned /\ semitone_offset = 0) => result = pitch

\* C6 witness: a zero-offset call has returned, on a double-flat spelling
\* below the MIDI range.
C6_Witness ==
    /\ Returned
    /\ semitone_offset = 0
    /\ NoteName_accidental(pitch.name) = "DoubleFlat"
    /\ ~InMidiRange(Pitch_midi_true(pitch))
    /\ result = pitch

-----------------------------------------------------------------------------
(* Scenario: building note names and acting on them with intervals          *)

ReadBack(name) ==
    [letter |-> NoteName_letter(name), accidental |-> NoteName_accidental(name)]

InitNote ==
    /\ pc = "start"
    /\ note = Idle /\ operand = Idle /\ derived = Idle
    /\ followup = Idle /\ readback = Idle
    /\ pitch = Idle /\ semitone_offset = Idle /\ result = Idle
    /\ ia = Idle /\ ib = Idle /\ ic = Idle /\ isum = Idle
    /\ subject = Idle /\ argument = Idle /\ outcome = Idle

\* NoteName::new(letter, accidental)
New(letter, accidental) ==
    /\ pc = "start"
    /\ note' = NoteName_new(letter, accidental)
    /\ operand' = [op |-> "new", letter |-> letter, accidental |-> accidental]
    /\ pc' = "built"
    /\ UNCHANGED <<derived, followup, readback>>
    /\ UNCHANGED transposeVars
    /\ UNCHANGED intervalVars
    /\ UNCHANGED callVars

\* NoteName::from_fifths(fifths), on a coordinate of the valid range
FromFifths(fifths) ==
    /\ pc = "start"
    /\ note' = NoteName_from_fifths(fifths)
    /\ operand' = [op |-> "from_fifths", fifths |-> fifths]
    /\ pc' = "built"
    /\ UNCHANGED <<derived, followup, readback>>
    /\ UNCHANGED transposeVars
    /\ UNCHANGED intervalVars
    /\ UNCHANGED callVars

\* note.letter() and note.accidental()
Read ==
    /\ pc = "built"
    /\ readback' = ReadBack(note)
    /\ pc' = "read"
    /\ UNCHANGED <<note, operand, derived, followup>>
    /\ UNCHANGED transposeVars
    /\ UNCHANGED intervalVars
    /\ UNCHANGED callVars

\* NoteName::new(note.letter(), note.accidental())
Rebuild ==
    /\ pc = "read"
    /\ followup' = NoteName_new(readback.letter, readback.accidental)
    /\ pc' = "rebuilt"
    /\ UNCHANGED <<note, operand, derived, readback>>
    /\ UNCHANGED transposeVars
    /\ UNCHANGED intervalVars
    /\ UNCHANGED callVars

\* note + interval, for a named interval constant
Act(interval) ==
    /\ pc = "built"
    /\ operand' = interval
    /\ derived' = NoteName_act(note, interval)
    /\ pc' = "acted"
    /\ UNCHANGED <<note, followup, readback>>
    /\ UNCHANGED transposeVars
    /\ UNCHANGED intervalVars
    /\ UNCHANGED callVars

\* (note + interval).letter() and .accidental()
ReadActed ==
    /\ pc = "acted"
    /\ readback' = ReadBack(derived)
    /\ pc' = "acted_read"
    /\ UNCHANGED <<note, operand, derived, followup>>
    /\ UNCHANGED transposeVars
    /\ UNCHANGED intervalVars
    /\ UNCHANGED callVars

\* (note + interval) - note
DifferenceBack ==
    /\ pc = "acted"
    /\ followup' = NoteName_difference(derived, note)
    /\ pc' = "acted_back"
    /\ UNCHANGED <<note, operand, derived, readback>>
    /\ UNCHANGED transposeVars
    /\ UNCHANGED intervalVars
    /\ UNCHANGED callVars

\* other - note, for a valid note name `other`
Difference(other) ==
    /\ pc = "built"
    /\ operand' = other
    /\ derived' = NoteName_difference(other, note)
    /\ pc' = "differenced"
    /\ UNCHANGED <<note, followup, readback>>
    /\ UNCHANGED transposeVars
    /\ UNCHANGED intervalVars
    /\ UNCHANGED callVars

\* note + (other - note)
ActDifference ==
    /\ pc = "differenced"
    /\ followup' = NoteName_act(note, derived)
    /\ pc' = "landed"
    /\ UNCHANGED <<note, operand, derived, readback>>
    /\ UNCHANGED transposeVars
    /\ UNCHANGED intervalVars
    /\ UNCHANGED callVars

NextNote ==
    \/ \E l \in Letters, a \in Accidentals : New(l, a)
    \/ \E k \in NoteNameMin..NoteNameMax : FromFifths(k)
    \/ Read
    \/ Rebuild
    \/ \E v \in NamedIntervals : Act(v)
    \/ ReadActed
    \/ DifferenceBack
    \/ \E q \in ValidNoteNames : Difference(q)
    \/ ActDifference

SpecNote == InitNote /\ [][NextNote]_vars

-----------------------------------------------------------------------------
(* Properties of the note-name algebra                                      *)

\* C7 (as claimed): the torsor laws (p + v) - p = v, for simple and compound
\* named intervals v alike, and p + (q - p) = q.
C7_TorsorLaws ==
    /\ pc = "acted_back" => followup = operand
    /\ pc = "landed" => followup = operand

\* C7 (amended): (p + v) - p has the fifths of v and no octaves, so it is v
\* exactly when v has no octave component; p + (q - p) = q.
C7_TorsorLawsUpToOctaves ==
    /\ pc = "acted_back" =>
          /\ followup = Interval_with_fifths(operand.fifths)
          /\ operand.octaves = 0 => followup = operand
    /\ pc = "landed" => followup = operand

\* C7 witness: (p + v) - p has been computed for a compound interval v.
C7_Witness ==
    /\ pc = "acted_back"
    /\ operand.octaves = 1
    /\ followup.fifths = operand.fifths

\* C9: NoteName::new and letter()/accidental() are inverse to each other:
\* new(l, a) reads back as (l, a), and rebuilding from_fifths(k) from its
\* letter and accidental gives the coordinate k again, for k in -15..19.
C9_NewRoundTrip ==
    /\ (pc = "built" /\ operand.op = "new") =>
          note \in NoteNameMin..NoteNameMax
    /\ (pc = "read" /\ operand.op = "new") =>
          /\ readback.letter = operand.letter
          /\ readback.accidental = operand.accidental
    /\ (pc = "rebuilt" /\ operand.op = "from_fifths") =>
          NoteName_fifths(followup) = operand.fifths

\* C9 witness: the highest coordinate has been read back and rebuilt.
C9_Witness ==
    /\ pc = "rebuilt"
    /\ operand.op = "from_fifths"
    /\ operand.fifths = NoteNameMax
    /\ readback = [letter |-> "B", accidental |-> "DoubleSharp"]

\* C10: a valid note name plus a named interval constant has a coordinate in
\* -15..19, so its letter() and accidental() do not abort.
C10_ActStaysInBand ==
    /\ pc = "acted" => derived \in NoteNameMin..NoteNameMax
    /\ pc = "acted_read" =>
          /\ readback.letter # LetterPanic
          /\ readback.accidental # AccidentalPanic

-----------------------------------------------------------------------------
(* Scenario: adding and negating intervals                                  *)

InitInterval ==
    /\ pc = "one"
    /\ ia \in NamedIntervals
    /\ ib = Idle /\ ic = Idle /\ isum = Idle
    /\ subject = Idle /\ argument = Idle /\ outcome = Idle
    /\ pitch = Idle /\ semitone_offset = Idle /\ result = Idle
    /\ note = Idle /\ operand = Idle /\ derived = Idle
    /\ followup = Idle /\ readback = Idle

\* a + Interval::PERFECT_UNISON
AddUnison ==
    /\ pc = "one"
    /\ isum' = Interval_add(ia, IntervalConstants.PERFECT_UNISON)
    /\ pc' = "plus_unison"
    /\ UNCHANGED <<ia, ib, ic>>
    /\ UNCHANGED transposeVars
    /\ UNCHANGED noteVars
    /\ UNCHANGED callVars

\* a + (-a)
AddInverse ==
    /\ pc = "one"
    /\ isum' = Interval_add(ia, Interval_neg(ia))
    /\ pc' = "plus_inverse"
    /\ UNCHANGED <<ia, ib, ic>>
    /\ UNCHANGED transposeVars
    /\ UNCHANGED noteVars
    /\ UNCHANGED callVars

\* a + b
Add(b) ==
    /\ pc = "one"
    /\ ib' = b
    /\ isum' = Interval_add(ia, b)
    /\ pc' = "two"
    /\ UNCHANGED <<ia, ic>>
    /\ UNCHANGED transposeVars
    /\ UNCHANGED noteVars
    /\ UNCHANGED callVars

\* (a + b) + c and a + (b + c)
AddBothWays(c) ==
    /\ pc = "two"
    /\ ic' = c
    /\ isum' = [left  |-> Interval_add(isum, c),
                right |-> Interval_add(ia, Interval_add(ib, c))]
    /\ pc' = "three"
    /\ UNCHANGED <<ia, ib>>
    /\ UNCHANGED transposeVars
    /\ UNCHANGED noteVars
    /\ UNCHANGED callVars

NextInterval ==
    \/ AddUnison
    \/ AddInverse
    \/ \E b \in NamedIntervals : Add(b)
    \/ \E c \in NamedIntervals : AddBothWays(c)

SpecInterval == InitInterval /\ [][NextInterval]_vars

-----------------------------------------------------------------------------
(* Scales: a tonic and a scale definition of the registry                   *)

Some(x) == [some |-> x]

\* The first index of a non-empty set of indices (Iterator::position, the
\* first iteration of a loop that returns).
First(S) == CHOOSE i \in S : \A j \in S : i <= j

\* The registry of scale definitions, in the order of the table.
REGISTRY ==
    LET I == IntervalConstants IN
    << [name |-> "Ionian", intervals |->
          <<I.PERFECT_UNISON, I.MAJOR_SECOND, I.MAJOR_THIRD, I.PERFECT_FOURTH,
            I.PERFECT_FIFTH, I.MAJOR_SIXTH, I.MAJOR_SEVENTH>>],
       [name |-> "Dorian", intervals |->
          <<I.PERFECT_UNISON, I.MAJOR_SECOND, I.MINOR_THIRD, I.PERFECT_FOURTH,
            I.PERFECT_FIFTH, I.MAJOR_SIXTH, I.MINOR_SEVENTH>>],
       [name |-> "Phrygian", intervals |->
          <<I.PERFECT_UNISON, I.MINOR_SECOND, I.MINOR_THIRD, I.PERFECT_FOURTH,
            I.PERFECT_FIFTH, I.MINOR_SIXTH, I.MINOR_SEVENTH>>],
       [name |-> "Lydian", intervals |->
          <<I.PERFECT_UNISON, I.MAJOR_SECOND, I.MAJOR_THIRD, I.AUGMENTED_FOURTH,
            I.PERFECT_FIFTH, I.MAJOR_SIXTH, I.MAJOR_SEVENTH>>],
       [name |-> "Mixolydian", intervals |->
          <<I.PERFECT_UNISON, I.MAJOR_SECOND, I.MAJOR_THIRD, I.PERFECT_FOURTH,
            I.PERFECT_FIFTH, I.MAJOR_SIXTH, I.MINOR_SEVENTH>>],
       [name |-> "Aeolian", intervals |->
          <<I.PERFECT_UNISON, I.MAJOR_SECOND, I.MINOR_THIRD, I.PERFECT_FOURTH,
            I.PERFECT_FIFTH, I.MINOR_SIXTH, I.MINOR_SEVENTH>>],
       [name |-> "Harmonic Minor", intervals |->
          <<I.PERFECT_UNISON, I.MAJOR_SECOND, I.MINOR_THIRD, I.PERFECT_FOURTH,
            I.PERFECT_FIFTH, I.MINOR_SIXTH, I.MAJOR_SEVENTH>>],
       [name |-> "Melodic Minor", intervals |->
          <<I.PERFECT_UNISON, I.MAJOR_SECOND, I.MINOR_THIRD, I.PERFECT_FOURTH,
            I.PERFECT_FIFTH, I.MAJOR_SIXTH, I.MAJOR_SEVENTH>>],
       [name |-> "Locrian", intervals |->
          <<I.PERFECT_UNISON, I.MINOR_SECOND, I.MINOR_THIRD, I.PERFECT_FOURTH,
            I.DIMINISHED_FIFTH, I.MINOR_SIXTH, I.MINOR_SEVENTH>>],
       [name |-> "Whole Tone", intervals |->
          <<I.PERFECT_UNISON, I.MAJOR_SECOND, I.MAJOR_THIRD, I.AUGMENTED_FOURTH,
            I.AUGMENTED_FIFTH, I.AUGMENTED_SIXTH>>],
       [name |-> "Hungarian Minor", intervals |->
          <<I.PERFECT_UNISON, I.MAJOR_SECOND, I.MINOR_THIRD, I.AUGMENTED_FOURTH,
            I.PERFECT_FIFTH, I.MINOR_SIXTH, I.MAJOR_SEVENTH>>],
       [name |-> "Altered", intervals |->
          <<I.PERFECT_UNISON, I.MINOR_SECOND, I.MINOR_THIRD, I.DIMINISHED_FOURTH,
            I.DIMINISHED_FIFTH, I.MINOR_SIXTH, I.MINOR_SEVENTH>>] >>

\* The bitmask field of each definition of the registry, in the order of
\* the registry: bit n is set when pitch class n belongs to the scale.
REGISTRY_bitmask ==
    << \b101010110101, \b011010101101, \b010110101011, \b101011010101,
       \b011010110101, \b010110101101, \b100110101101, \b101010101101,
       \b010101101011, \b010101010101, \b100111001101, \b010101011011 >>

\* ScaleBitmask::from_intervals: a u8 count of semitones runs through the
\* list, each interval is added to it, and the bit of the count modulo 12
\* is set after each addition.
ScaleBitmask_from_intervals(intervals) ==
    LET semitones[i \in 0..Len(intervals)] ==
            IF i = 0 THEN 0
            ELSE (semitones[i - 1] + Interval_semitones(intervals[i])) % 256
        bits == {semitones[i] % 12 : i \in DOMAIN intervals}
        mask[n \in 0..12] ==
            IF n = 0 THEN 0
            ELSE mask[n - 1] + (IF (n - 1) \in bits THEN 2 ^ (n - 1) ELSE 0)
    IN  IF \E i \in DOMAIN intervals : Interval_semitones(intervals[i]) < 0
        THEN Panic("Cannot have negative intervals in a bitmask")
        ELSE mask[12]

\* ScaleBitmask::contains: self.0 & (1 << (pitch_class % 12)) != 0
ScaleBitmask_contains(bitmask, pitch_class) ==
    (bitmask \div (2 ^ (pitch_class % 12))) % 2 # 0

\* Scale::new(tonic, definition)
Scale_new(tonic, definition) == [tonic |-> tonic, definition |-> definition]

\* notes(): the root plus each interval, in the order of the intervals.
\* A scale and a chord answer it the same way.
notes(root, intervals) ==
    [i \in DOMAIN intervals |-> NoteName_add(root, intervals[i])]

Scale_notes(scale) == notes(scale.tonic, scale.definition.intervals)

\* The abort of base_midi_number() on a note name, or None when it returns:
\* letter() is evaluated first, accidental() second.
base_midi_number_panic(name) ==
    IF NoteName_letter(name) = LetterPanic THEN Panic(LetterPanic)
    ELSE IF NoteName_accidental(name) = AccidentalPanic
         THEN Panic(AccidentalPanic)
         ELSE None

\* NoteName::is_enharmonic_with, on two names whose base_midi_number()
\* returns.
is_enharmonic_with(name, other) ==
    TruncRem(NoteName_base_midi_number(name) + 12, 12)
        = TruncRem(NoteName_base_midi_number(other) + 12, 12)

\* Scale::degree_of: the position of the exact match, else the position of
\* the first enharmonic scale note, else None.  The enharmonic scan reads
\* the semitone of every scale note up to the match and aborts on a scale
\* note that has none.
degree_of(scale, query) ==
    LET scale_notes == Scale_notes(scale)
        exact == {i \in DOMAIN scale_notes : scale_notes[i] = query}
        stops == {i \in DOMAIN scale_notes :
                    \/ base_midi_number_panic(scale_notes[i]) # None
                    \/ is_enharmonic_with(scale_notes[i], query)}
    IN  IF exact # {} THEN Some(First(exact))
        ELSE IF stops = {} THEN None
        ELSE IF base_midi_number_panic(scale_notes[First(stops)]) # None
             THEN base_midi_number_panic(scale_notes[First(stops)])
             ELSE Some(First(stops))

\* The alteration of one step of the chromatic scan: the semitone distance
\* of the query above the scale note, 1 and 2 read as sharp and double
\* sharp, 11 and 10 as flat and double flat; 0 when the step does not match.
chromatic_alteration(scale_note, query) ==
    LET semitone_diff ==
            NoteName_base_midi_number(query) - NoteName_base_midi_number(scale_note)
        octave_adjusted_diff == TruncRem(semitone_diff + 12, 12)
    IN  CASE octave_adjusted_diff = 1 -> 1
          [] octave_adjusted_diff = 11 -> -1
          [] octave_adjusted_diff = 2 -> 2
          [] octave_adjusted_diff = 10 -> -2
          [] OTHER -> 0

\* Scale::chromatic_degree: (degree, 0) when degree_of answers, else the
\* first of the degrees 1..7, in ascending order, whose scale note lies one
\* or two semitones from the query.
chromatic_degree(scale, query) ==
    LET scale_notes == Scale_notes(scale)
        degrees == {d \in 1..7 : d \in DOMAIN scale_notes}
        stops == {d \in degrees :
                    \/ base_midi_number_panic(scale_notes[d]) # None
                    \/ chromatic_alteration(scale_notes[d], query) # 0}
        diatonic == degree_of(scale, query)
    IN  IF IsPanic(diatonic) THEN diatonic
        ELSE IF diatonic # None THEN Some(<<diatonic.some, 0>>)
        ELSE IF stops = {} THEN None
        ELSE IF base_midi_number_panic(scale_notes[First(stops)]) # None
             THEN base_midi_number_panic(scale_notes[First(stops)])
             ELSE Some(<<First(stops),
                         chromatic_alteration(scale_notes[First(stops)], query)>>)

-----------------------------------------------------------------------------
(* Scenario: a scale is built and asked for its notes or for a degree       *)

InitScale ==
    /\ pc = "scale"
    /\ subject \in {Scale_new(t, REGISTRY[k]) :
                        t \in ValidNoteNames, k \in DOMAIN REGISTRY}
    /\ argument \in ValidNoteNames
    /\ outcome = Idle
    /\ pitch = Idle /\ semitone_offset = Idle /\ result = Idle
    /\ note = Idle /\ operand = Idle /\ derived = Idle
    /\ followup = Idle /\ readback = Idle
    /\ ia = Idle /\ ib = Idle /\ ic = Idle /\ isum = Idle

\* scale.notes()
Notes ==
    /\ pc = "scale"
    /\ outcome' = Scale_notes(subject)
    /\ pc' = "notes"
    /\ UNCHANGED <<subject, argument>>
    /\ UNCHANGED <<transposeVars, noteVars, intervalVars>>

\* scale.degree_of(&note)
DegreeOf ==
    /\ pc = "scale"
    /\ outcome' = degree_of(subject, argument)
    /\ pc' = "degree_of"
    /\ UNCHANGED <<subject, argument>>
    /\ UNCHANGED <<transposeVars, noteVars, intervalVars>>

\* scale.chromatic_degree(&note)
ChromaticDegree ==
    /\ pc = "scale"
    /\ outcome' = chromatic_degree(subject, argument)
    /\ pc' = "chromatic_degree"
    /\ UNCHANGED <<subject, argument>>
    /\ UNCHANGED <<transposeVars, noteVars, intervalVars>>

\* ScaleBitmask::from_intervals(scale.definition.intervals)
FromIntervals ==
    /\ pc = "scale"
    /\ outcome' = ScaleBitmask_from_intervals(subject.definition.intervals)
    /\ pc' = "from_intervals"
    /\ UNCHANGED <<subject, argument>>
    /\ UNCHANGED <<transposeVars, noteVars, intervalVars>>

NextScale ==
    \/ Notes
    \/ DegreeOf
    \/ ChromaticDegree
    \/ FromIntervals

SpecScale == InitScale /\ [][NextScale]_vars

\* C11: notes() is the tonic plus each interval of the definition, in order,
\* and in a seven-note scale the i-th note carries the letter i - 1 diatonic
\* steps above the letter of the tonic, so that every letter is used once.
C11_ScaleNotesLetters ==
    pc = "notes" =>
        LET intervals == subject.definition.intervals IN
        /\ Len(outcome) = Len(intervals)
        /\ \A i \in DOMAIN intervals :
               outcome[i] = subject.tonic + intervals[i].fifths
        /\ Len(intervals) = 7 =>
               /\ \A i \in 1..7 :
                      NoteName_letter(outcome[i])
                          = StepLetter(NoteName_letter(subject.tonic), 1, i - 1)
               /\ {NoteName_letter(outcome[i]) : i \in 1..7} = Letters

\* C12: a note equal to the i-th scale note resolves to step i with no
\* alteration, and so does a note that equals no scale note but has the
\* semitone (mod 12) of the i-th scale note.
C12_ExactAndEnharmonicFirst ==
    pc \in {"degree_of", "chromatic_degree"} =>
        LET scale_notes == Scale_notes(subject)
            semitone(name) == (name * 7) % 12
            expected(i) == IF pc = "degree_of" THEN Some(i) ELSE Some(<<i, 0>>)
            exact == \E i \in DOMAIN scale_notes : scale_notes[i] = argument
        IN  \A i \in DOMAIN scale_notes :
                /\ scale_notes[i] = argument => outcome = expected(i)
                /\ (~exact /\ semitone(scale_notes[i]) = semitone(argument))
                       => outcome = expected(i)

\* C13: when the note has the semitone of no scale note, a flat note with a
\* scale note one semitone above it resolves to that step, flat, and a
\* sharp note with a scale note one semitone below it to that step, sharp.
C13_AlterationFollowsQueryPolarity ==
    pc = "chromatic_degree" =>
        LET scale_notes == Scale_notes(subject)
            semitone(name) == (name * 7) % 12
            clash == \E i \in DOMAIN scale_notes :
                         semitone(scale_notes[i]) = semitone(argument)
        IN  ~clash =>
              \A i \in DOMAIN scale_notes :
                /\ (/\ is_flat(NoteName_accidental(argument))
                    /\ semitone(scale_notes[i]) = (semitone(argument) + 1) % 12)
                       => outcome = Some(<<i, -1>>)
                /\ (/\ is_sharp(NoteName_accidental(argument))
                    /\ semitone(scale_notes[i]) = (semitone(argument) + 11) % 12)
                       => outcome = Some(<<i, 1>>)

-----------------------------------------------------------------------------
(* Chords: a root and the intervals from the root                           *)

\* Chord::new(root, intervals)
Chord_new(root, intervals) == [root |-> root, intervals |-> intervals]

\* ChordQuality::detect without the two arms that classify a chord with no
\* fifth type by its third.
ChordQuality_detect_no_diads(intervals) ==
    LET I == IntervalConstants
        count(x) == Cardinality({i \in DOMAIN intervals : intervals[i] = x})
        major_thirds == count(I.MAJOR_THIRD)
        minor_thirds == count(I.MINOR_THIRD)
        perfect_fifths == count(I.PERFECT_FIFTH)
        diminished_fifths == count(I.DIMINISHED_FIFTH)
        augmented_fifths == count(I.AUGMENTED_FIFTH)
        third_type ==
            IF major_thirds > minor_thirds THEN Some(TRUE)
            ELSE IF minor_thirds > major_thirds THEN Some(FALSE)
            ELSE None
        fifth_type ==
            IF perfect_fifths > diminished_fifths
                   /\ perfect_fifths > augmented_fifths THEN Some(0)
            ELSE IF diminished_fifths > perfect_fifths
                   /\ diminished_fifths > augmented_fifths THEN Some(-1)
            ELSE IF augmented_fifths > perfect_fifths
                   /\ augmented_fifths > diminished_fifths THEN Some(1)
            ELSE None
    IN  CASE third_type = Some(TRUE) /\ fifth_type = Some(0) -> Some("Major")
          [] third_type = Some(FALSE) /\ fifth_type = Some(0) -> Some("Minor")
          [] third_type = Some(FALSE) /\ fifth_type = Some(-1) -> Some("Diminished")
          [] third_type = Some(TRUE) /\ fifth_type = Some(1) -> Some("Augmented")
          [] OTHER -> None

\* ChordQuality::detect: the counts of the two third types and of the three
\* fifth types, the strictly most frequent of each, and the table of pairs.
ChordQuality_detect(intervals) ==
    LET I == IntervalConstants
        count(x) == Cardinality({i \in DOMAIN intervals : intervals[i] = x})
        major_thirds == count(I.MAJOR_THIRD)
        minor_thirds == count(I.MINOR_THIRD)
        perfect_fifths == count(I.PERFECT_FIFTH)
        diminished_fifths == count(I.DIMINISHED_FIFTH)
        augmented_fifths == count(I.AUGMENTED_FIFTH)
        third_type ==
            IF major_thirds > minor_thirds THEN Some(TRUE)
            ELSE IF minor_thirds > major_thirds THEN Some(FALSE)
            ELSE None
        fifth_type ==
            IF perfect_fifths > diminished_fifths
                   /\ perfect_fifths > augmented_fifths THEN Some(0)
            ELSE IF diminished_fifths > perfect_fifths
                   /\ diminished_fifths > augmented_fifths THEN Some(-1)
            ELSE IF augmented_fifths > perfect_fifths
                   /\ augmented_fifths > diminished_fifths THEN Some(1)
            ELSE None
    IN  CASE third_type = Some(TRUE) /\ fifth_type = Some(0) -> Some("Major")
          [] third_type = Some(FALSE) /\ fifth_type = Some(0) -> Some("Minor")
          [] third_type = Some(FALSE) /\ fifth_type = Some(-1) -> Some("Diminished")
          [] third_type = Some(TRUE) /\ fifth_type = Some(1) -> Some("Augmented")
          [] third_type = Some(FALSE) /\ fifth_type = None -> Some("Minor")
          [] third_type = Some(TRUE) /\ fifth_type = None -> Some("Major")
          [] OTHER -> None

\* The has_* flags of extended_type, with the ninth recognised by its
\* compound forms only.
extension_flags_compound_ninth(intervals) ==
    LET I == IntervalConstants
        contains(x) == \E i \in DOMAIN intervals : intervals[i] = x
    IN  [minor_7th |-> contains(I.MINOR_SEVENTH),
         major_7th |-> contains(I.MAJOR_SEVENTH),
         ninth |-> contains(I.MAJOR_NINTH) \/ contains(I.MINOR_NINTH),
         eleventh |-> contains(I.PERFECT_ELEVENTH) \/ contains(I.PERFECT_FOURTH),
         thirteenth |-> \/ contains(I.MAJOR_THIRTEENTH)
                        \/ contains(I.MINOR_THIRTEENTH)
                        \/ contains(I.MAJOR_SIXTH)
                        \/ contains(I.MINOR_SIXTH),
         is_major |-> contains(I.MAJOR_THIRD)]

\* The has_* flags of extended_type and is_major().
extension_flags(intervals) ==
    LET I == IntervalConstants
        contains(x) == \E i \in DOMAIN intervals : intervals[i] = x
    IN  [minor_7th |-> contains(I.MINOR_SEVENTH),
         major_7th |-> contains(I.MAJOR_SEVENTH),
         ninth |-> \/ contains(I.MAJOR_NINTH)
                   \/ contains(I.MINOR_NINTH)
                   \/ contains(I.MINOR_SECOND)
                   \/ contains(I.MAJOR_SECOND),
         eleventh |-> contains(I.PERFECT_ELEVENTH) \/ contains(I.PERFECT_FOURTH),
         thirteenth |-> \/ contains(I.MAJOR_THIRTEENTH)
                        \/ contains(I.MINOR_THIRTEENTH)
                        \/ contains(I.MAJOR_SIXTH)
                        \/ contains(I.MINOR_SIXTH),
         is_major |-> contains(I.MAJOR_THIRD)]

\* Chord::extended_type: the cascade from the thirteenth down to the seventh.
extended_type(intervals) ==
    LET has == extension_flags(intervals) IN
    IF has.thirteenth THEN
        IF has.eleventh /\ has.ninth THEN
            IF has.minor_7th THEN "13"
            ELSE IF has.major_7th
                 THEN (IF has.is_major THEN "maj13" ELSE "(maj13)")
                 ELSE "add13"
        ELSE IF has.major_7th THEN
            IF has.is_major
            THEN (IF has.ninth THEN "maj13(no11)"
                  ELSE IF has.eleventh THEN "maj13(no9)"
                  ELSE "maj7(add13)")
            ELSE (IF has.ninth THEN "(maj13)(no11)"
                  ELSE IF has.eleventh THEN "(maj13)(no9)"
                  ELSE "(maj7)(add13)")
        ELSE IF has.minor_7th THEN
            IF has.ninth THEN "13(no11)"
            ELSE IF has.eleventh THEN "13(no9)"
            ELSE "7(add13)"
        ELSE "add13"
    ELSE IF has.eleventh THEN
        IF has.ninth THEN
            IF has.major_7th
            THEN (IF has.is_major THEN "maj11" ELSE "(maj11)")
            ELSE IF has.minor_7th THEN "11"
            ELSE "add11"
        ELSE IF has.major_7th
             THEN (IF has.is_major THEN "maj7(add11)" ELSE "(maj7)(add11)")
        ELSE IF has.minor_7th THEN "7(add11)"
        ELSE "add11"
    ELSE IF has.ninth THEN
        IF has.minor_7th THEN "9"
        ELSE IF has.major_7th
             THEN (IF has.is_major THEN "maj9" ELSE "(maj9)")
        ELSE "add9"
    ELSE IF has.minor_7th THEN "7"
    ELSE IF has.major_7th
         THEN (IF has.is_major THEN "maj7" ELSE "(maj7)")
    ELSE ""

\* Chord::abbreviated_name: the three parts that are written one after the
\* other: the root, the quality suffix and the extended type.
abbreviated_name(chord) ==
    LET quality == ChordQuality_detect(chord.intervals) IN
    << ReadBack(chord.root),
       CASE quality = Some("Major") -> ""
         [] quality = Some("Minor") -> "m"
         [] quality = Some("Diminished") -> "dim"
         [] quality = Some("Augmented") -> "aug"
         [] OTHER -> "",
       extended_type(chord.intervals) >>

\* Interval::is_third and Interval::is_fifth: the interval spans three,
\* respectively five, letters, whatever its quality.  The number of letter
\* steps of an interval is (4 * fifths) mod 7.
is_third(interval) == (4 * interval.fifths) % 7 = 2
is_fifth(interval) == (4 * interval.fifths) % 7 = 4

\* interval_to with the two notes exchanged.
interval_to_exchanged(name, other) == NoteName_difference(name, other)

\* NoteName::interval_to
interval_to(name, other) == NoteName_difference(other, name)

\* Chord::from_notes_and_root
from_notes_and_root(note_list, root) ==
    Chord_new(root, [i \in DOMAIN note_list |-> interval_to(root, note_list[i])])

RECURSIVE root_fold(_, _)
\* The fold of from_notes over the first k notes: the candidate root and its
\* score.  A note scores 5 for every other note a fifth above it and 3 for
\* every other note a third above it; a higher score replaces the
\* candidate, an equal score replaces it when the note has the lower
\* base_midi_number(), which aborts on a note name outside the 35.
root_fold(note_list, k) ==
    IF k = 0 THEN [candidate |-> note_list[1], score |-> -I32Max - 1]
    ELSE
        LET acc == root_fold(note_list, k - 1)
            n == note_list[k]
            others == {i \in DOMAIN note_list : note_list[i] # n}
            fifths == {i \in others : is_fifth(interval_to(n, note_list[i]))}
            thirds == {i \in others \ fifths :
                          is_third(interval_to(n, note_list[i]))}
            note_score == 5 * Cardinality(fifths) + 3 * Cardinality(thirds)
            abort(name) == IF NoteName_letter(name) = LetterPanic
                           THEN Panic(LetterPanic)
                           ELSE Panic(AccidentalPanic)
        IN  IF IsPanic(acc) THEN acc
            ELSE IF note_score = acc.score
            THEN IF n \notin ValidNoteNames THEN abort(n)
                 ELSE IF acc.candidate \notin ValidNoteNames
                      THEN abort(acc.candidate)
                 ELSE [candidate |->
                           IF NoteName_base_midi_number(n)
                                  < NoteName_base_midi_number(acc.candidate)
                           THEN n ELSE acc.candidate,
                       score |-> acc.score]
            ELSE IF note_score > acc.score
                 THEN [candidate |-> n, score |-> note_score]
                 ELSE acc

\* The root a chord would get from the value the fold returns.
from_notes_root_of_fold(note_list) ==
    IF note_list = <<>>
    THEN from_notes_and_root(note_list, NoteName_new("C", "Natural"))
    ELSE IF IsPanic(root_fold(note_list, Len(note_list)))
         THEN root_fold(note_list, Len(note_list))
         ELSE from_notes_and_root(note_list,
                                  root_fold(note_list, Len(note_list)).candidate)

\* Chord::from_notes: the fold runs, and may abort, but the value it returns
\* is dropped: the closure's candidate and score are its own parameters, and
\* the candidate read after the fold is still the first note.  On an empty
\* list the root is C.
from_notes(note_list) ==
    IF note_list = <<>>
    THEN from_notes_and_root(note_list, NoteName_new("C", "Natural"))
    ELSE IF IsPanic(root_fold(note_list, Len(note_list)))
         THEN root_fold(note_list, Len(note_list))
         ELSE from_notes_and_root(note_list, note_list[1])

\* transposed() leaving the root where it was.
transposed_same_root(chord, interval) == chord

\* Transposable::transposed: a clone whose root is moved by the interval.
transposed(chord, interval) ==
    [chord EXCEPT !.root = NoteName_add(chord.root, interval)]

\* The reflection that leaves every note where it is.
reflect_across_axis_nowhere(chord, axis_note1, axis_note2) ==
    from_notes(notes(chord.root, chord.intervals))

\* reflect_across_axis with reflect_point_across_line: a note on the axis
\* stays, any other note is reflected on the line of fifths, and the chord
\* is built again from the notes.  Across an axis of 1, 3 or 4 fifths the
\* reflection is 2 * midpoint - note, computed in f32 (exact on these
\* values) and cast to i8; across any other axis general_tonnetz_reflection
\* places every note at (fifths, 4 * fifths / 7), a point of the line through
\* the two axis notes, so the reflected note is the note itself.
reflect_across_axis(chord, axis_note1, axis_note2) ==
    LET as_i8(x) == IF x > 127 THEN 127 ELSE IF x < -128 THEN -128 ELSE x
        abs(x) == IF x < 0 THEN -x ELSE x
        axis_interval == NoteName_fifths(axis_note2) - NoteName_fifths(axis_note1)
        reflect_point_across_line(n) ==
            IF abs(axis_interval) \in {1, 3, 4}
            THEN NoteName_from_fifths(
                     as_i8(NoteName_fifths(axis_note1) + NoteName_fifths(axis_note2)
                               - NoteName_fifths(n)))
            ELSE n
        chord_notes == notes(chord.root, chord.intervals)
        reflected == [i \in DOMAIN chord_notes |->
                         IF chord_notes[i] = axis_note1 \/ chord_notes[i] = axis_note2
                         THEN chord_notes[i]
                         ELSE reflect_point_across_line(chord_notes[i])]
    IN  from_notes(reflected)

\* transform_p: the axis is the root and the fifth.
transform_p(chord) ==
    reflect_across_axis(chord, chord.root,
                        NoteName_add(chord.root, IntervalConstants.PERFECT_FIFTH))

-----------------------------------------------------------------------------
(* Scenario: a chord is given by its intervals or built from a list of      *)
(* notes, and is asked for its quality, its extended type and its name      *)

\* Largest number of intervals of a chord given by its intervals.
MaxChordLen == 5

\* The chords given by their intervals, on the root C: every list of at most
\* MaxChordLen of the intervals that decide the quality (which may repeat),
\* and every ascending selection of at most MaxChordLen of the intervals that
\* decide the extended type.
GivenChords ==
    LET I == IntervalConstants
        QualityIntervals ==
            {I.PERFECT_UNISON, I.MAJOR_THIRD, I.MINOR_THIRD, I.PERFECT_FIFTH,
             I.DIMINISHED_FIFTH, I.AUGMENTED_FIFTH}
        ExtensionIntervals ==
            <<I.PERFECT_UNISON, I.MINOR_SECOND, I.MAJOR_SECOND, I.MINOR_THIRD,
              I.MAJOR_THIRD, I.PERFECT_FOURTH, I.PERFECT_FIFTH, I.MINOR_SIXTH,
              I.MAJOR_SIXTH, I.MINOR_SEVENTH, I.MAJOR_SEVENTH, I.MINOR_NINTH,
              I.MAJOR_NINTH, I.PERFECT_ELEVENTH, I.MINOR_THIRTEENTH,
              I.MAJOR_THIRTEENTH>>
        ascending(S) ==
            [i \in 1..Cardinality(S) |->
                ExtensionIntervals[CHOOSE x \in S :
                                       Cardinality({y \in S : y < x}) = i - 1]]
        lists == UNION {[1..n -> QualityIntervals] : n \in 0..MaxChordLen}
        selections == {ascending(S) : S \in
                          {T \in SUBSET DOMAIN ExtensionIntervals :
                               Cardinality(T) <= MaxChordLen}}
    IN  {Chord_new(NoteName_new("C", "Natural"), l) : l \in lists \cup selections}


\* The note lists handed to from_notes: a chord in root position (a triad,
\* seventh, ninth, eleventh or thirteenth, as the intervals of its notes from
\* the first note) on any note name whose stack stays among the 35 note names.
NoteLists ==
    LET I == IntervalConstants
        RootPositionStacks ==
            { <<I.PERFECT_UNISON, I.MAJOR_THIRD, I.PERFECT_FIFTH>>,
              <<I.PERFECT_UNISON, I.MINOR_THIRD, I.PERFECT_FIFTH>>,
              <<I.PERFECT_UNISON, I.MINOR_THIRD, I.DIMINISHED_FIFTH>>,
              <<I.PERFECT_UNISON, I.MAJOR_THIRD, I.AUGMENTED_FIFTH>>,
              <<I.PERFECT_UNISON, I.MAJOR_THIRD, I.PERFECT_FIFTH, I.MINOR_SEVENTH>>,
              <<I.PERFECT_UNISON, I.MINOR_THIRD, I.PERFECT_FIFTH, I.MINOR_SEVENTH>>,
              <<I.PERFECT_UNISON, I.MAJOR_THIRD, I.PERFECT_FIFTH, I.MAJOR_SEVENTH>>,
              <<I.PERFECT_UNISON, I.MINOR_THIRD, I.PERFECT_FIFTH, I.MAJOR_SEVENTH>>,
              <<I.PERFECT_UNISON, I.MAJOR_THIRD, I.PERFECT_FIFTH, I.MINOR_SEVENTH,
                I.MAJOR_SECOND>>,
              <<I.PERFECT_UNISON, I.MINOR_THIRD, I.PERFECT_FIFTH, I.MINOR_SEVENTH,
                I.MAJOR_SECOND>>,
              <<I.PERFECT_UNISON, I.MAJOR_THIRD, I.PERFECT_FIFTH, I.MAJOR_SEVENTH,
                I.MAJOR_SECOND>>,
              <<I.PERFECT_UNISON, I.MAJOR_THIRD, I.PERFECT_FIFTH, I.MINOR_SEVENTH,
                I.MAJOR_SECOND, I.PERFECT_FOURTH>>,
              <<I.PERFECT_UNISON, I.MINOR_THIRD, I.PERFECT_FIFTH, I.MINOR_SEVENTH,
                I.MAJOR_SECOND, I.PERFECT_FOURTH>>,
              <<I.PERFECT_UNISON, I.MAJOR_THIRD, I.PERFECT_FIFTH, I.MINOR_SEVENTH,
                I.MAJOR_SECOND, I.PERFECT_FOURTH, I.MAJOR_SIXTH>>,
              <<I.PERFECT_UNISON, I.MAJOR_THIRD, I.PERFECT_FIFTH, I.MAJOR_SEVENTH,
                I.MAJOR_SECOND, I.PERFECT_FOURTH, I.MAJOR_SIXTH>> }
    IN
    {l \in {notes(r, t) : r \in ValidNoteNames, t \in RootPositionStacks} :
        \A i \in DOMAIN l : l[i] \in ValidNoteNames}

InitChord ==
    /\ \/ /\ pc = "chord"
          /\ subject \in GivenChords
          /\ argument = Idle
       \/ /\ pc = "note_list"
          /\ subject = Idle
          /\ argument \in NoteLists
    /\ outcome = Idle
    /\ pitch = Idle /\ semitone_offset = Idle /\ result = Idle
    /\ note = Idle /\ operand = Idle /\ derived = Idle
    /\ followup = Idle /\ readback = Idle
    /\ ia = Idle /\ ib = Idle /\ ic = Idle /\ isum = Idle

\* Chord::from_notes(&notes), as "C,E,G".parse::<Chord>() calls it
FromNotes ==
    /\ pc = "note_list"
    /\ subject' = from_notes(argument)
    /\ pc' = "from_notes"
    /\ UNCHANGED <<argument, outcome>>
    /\ UNCHANGED <<transposeVars, noteVars, intervalVars>>

\* chord.quality()
Quality ==
    /\ pc \in {"chord", "from_notes"}
    /\ outcome' = ChordQuality_detect(subject.intervals)
    /\ pc' = "quality"
    /\ UNCHANGED <<subject, argument>>
    /\ UNCHANGED <<transposeVars, noteVars, intervalVars>>

\* chord.extended_type()
ExtendedType ==
    /\ pc \in {"chord", "from_notes"}
    /\ outcome' = extended_type(subject.intervals)
    /\ pc' = "extended_type"
    /\ UNCHANGED <<subject, argument>>
    /\ UNCHANGED <<transposeVars, noteVars, intervalVars>>

\* chord.abbreviated_name()
AbbreviatedName ==
    /\ pc \in {"chord", "from_notes"}
    /\ outcome' = abbreviated_name(subject)
    /\ pc' = "abbreviated_name"
    /\ UNCHANGED <<subject, argument>>
    /\ UNCHANGED <<transposeVars, noteVars, intervalVars>>

\* chord.transposed(interval) on a chord built from notes; the chord it is
\* called on is borrowed and stays as it is.
Transposed ==
    /\ pc = "from_notes"
    /\ \E interval \in NamedIntervals :
           /\ argument' = interval
           /\ outcome' = transposed(subject, interval)
    /\ pc' = "transposed"
    /\ UNCHANGED subject
    /\ UNCHANGED <<transposeVars, noteVars, intervalVars>>

\* Chord::from_notes_and_root(&notes, root) on any of the 35 note names
FromNotesAndRoot ==
    /\ pc = "note_list"
    /\ \E root \in ValidNoteNames :
           subject' = from_notes_and_root(argument, root)
    /\ pc' = "from_notes_and_root"
    /\ UNCHANGED <<argument, outcome>>
    /\ UNCHANGED <<transposeVars, noteVars, intervalVars>>

\* chord.notes() on a chord built from notes
ChordNotes ==
    /\ pc \in {"from_notes", "from_notes_and_root"}
    /\ outcome' = notes(subject.root, subject.intervals)
    /\ pc' = "chord_notes"
    /\ UNCHANGED <<subject, argument>>
    /\ UNCHANGED <<transposeVars, noteVars, intervalVars>>

\* transformation::neo_riemann::transform_p(&chord)
TransformP ==
    /\ pc \in {"chord", "from_notes"}
    /\ outcome' = transform_p(subject)
    /\ pc' = "transform_p"
    /\ UNCHANGED <<subject, argument>>
    /\ UNCHANGED <<transposeVars, noteVars, intervalVars>>

NextChord ==
    \/ FromNotes
    \/ Quality
    \/ ExtendedType
    \/ AbbreviatedName
    \/ Transposed
    \/ FromNotesAndRoot
    \/ ChordNotes
    \/ TransformP

SpecChord == InitChord /\ [][NextChord]_vars

\* C14: the quality follows the strictly most frequent third and fifth:
\* major third with perfect fifth is Major, minor with perfect Minor, minor
\* with diminished Diminished, major with augmented Augmented; with no fifth
\* at all the third alone decides; major with diminished, minor with
\* augmented, and a fifth without any third give None.
C14_QualityByThirdAndFifth ==
    pc = "quality" =>
        LET I == IntervalConstants
            n(x) == Cardinality({i \in DOMAIN subject.intervals :
                                     subject.intervals[i] = x})
            major == n(I.MAJOR_THIRD) > n(I.MINOR_THIRD)
            minor == n(I.MINOR_THIRD) > n(I.MAJOR_THIRD)
            no_third == n(I.MAJOR_THIRD) = 0 /\ n(I.MINOR_THIRD) = 0
            perfect == /\ n(I.PERFECT_FIFTH) > n(I.DIMINISHED_FIFTH)
                       /\ n(I.PERFECT_FIFTH) > n(I.AUGMENTED_FIFTH)
            diminished == /\ n(I.DIMINISHED_FIFTH) > n(I.PERFECT_FIFTH)
                          /\ n(I.DIMINISHED_FIFTH) > n(I.AUGMENTED_FIFTH)
            augmented == /\ n(I.AUGMENTED_FIFTH) > n(I.PERFECT_FIFTH)
                         /\ n(I.AUGMENTED_FIFTH) > n(I.DIMINISHED_FIFTH)
            no_fifth == /\ n(I.PERFECT_FIFTH) = 0
                        /\ n(I.DIMINISHED_FIFTH) = 0
                        /\ n(I.AUGMENTED_FIFTH) = 0
        IN  /\ (major /\ perfect) => outcome = Some("Major")
            /\ (minor /\ perfect) => outcome = Some("Minor")
            /\ (minor /\ diminished) => outcome = Some("Diminished")
            /\ (major /\ augmented) => outcome = Some("Augmented")
            /\ (major /\ no_fifth) => outcome = Some("Major")
            /\ (minor /\ no_fifth) => outcome = Some("Minor")
            /\ (major /\ diminished) => outcome = None
            /\ (minor /\ augmented) => outcome = None
            /\ (no_third /\ ~no_fifth) => outcome = None

\* C14 witness: two major thirds outnumber one minor third, and a diad of a
\* minor third has been classified by its third.
C14_Witness ==
    /\ pc = "quality"
    /\ \/ /\ subject.intervals
                = <<IntervalConstants.MAJOR_THIRD, IntervalConstants.MINOR_THIRD,
                    IntervalConstants.MAJOR_THIRD, IntervalConstants.PERFECT_FIFTH>>
          /\ outcome = Some("Major")
       \/ /\ subject.intervals
                = <<IntervalConstants.PERFECT_UNISON, IntervalConstants.MINOR_THIRD>>
          /\ outcome = Some("Minor")

\* C15: a tie gives no quality: equally many major and minor thirds, or
\* fifths of which no type is strictly the most frequent, make detect
\* return None whatever the other family holds.
C15_TieIsIndeterminate ==
    pc = "quality" =>
        LET I == IntervalConstants
            n(x) == Cardinality({i \in DOMAIN subject.intervals :
                                     subject.intervals[i] = x})
            third_tie == /\ n(I.MAJOR_THIRD) = n(I.MINOR_THIRD)
                         /\ n(I.MAJOR_THIRD) > 0
            fifths == {n(I.PERFECT_FIFTH), n(I.DIMINISHED_FIFTH),
                       n(I.AUGMENTED_FIFTH)}
            fifth_tie ==
                /\ fifths # {0}
                /\ ~ \E x \in {I.PERFECT_FIFTH, I.DIMINISHED_FIFTH,
                               I.AUGMENTED_FIFTH} :
                        \A y \in {I.PERFECT_FIFTH, I.DIMINISHED_FIFTH,
                                  I.AUGMENTED_FIFTH} \ {x} : n(x) > n(y)
        IN  (third_tie \/ fifth_tie) => outcome = None

\* C16: extended_type gives the label of the highest extension present: a
\* 13 label with a thirteenth or sixth, else an 11 label with an eleventh
\* or fourth, else a 9 label with a ninth or second, else 7, maj7 or (maj7)
\* with a seventh, else the empty label; without a seventh the label is
\* add13, add11 or add9; unison, major third, perfect fifth, minor seventh
\* and major ninth give 9.
C16_LabelOfHighestExtension ==
    pc = "extended_type" =>
        LET I == IntervalConstants
            has(x) == \E i \in DOMAIN subject.intervals :
                          subject.intervals[i] = x
            thirteenth == \/ has(I.MAJOR_THIRTEENTH) \/ has(I.MINOR_THIRTEENTH)
                          \/ has(I.MAJOR_SIXTH) \/ has(I.MINOR_SIXTH)
            eleventh == has(I.PERFECT_ELEVENTH) \/ has(I.PERFECT_FOURTH)
            ninth == \/ has(I.MAJOR_NINTH) \/ has(I.MINOR_NINTH)
                     \/ has(I.MAJOR_SECOND) \/ has(I.MINOR_SECOND)
            seventh == has(I.MINOR_SEVENTH) \/ has(I.MAJOR_SEVENTH)
            labels13 == {"13", "maj13", "(maj13)", "add13", "maj13(no11)",
                         "maj13(no9)", "maj7(add13)", "(maj13)(no11)",
                         "(maj13)(no9)", "(maj7)(add13)", "13(no11)",
                         "13(no9)", "7(add13)"}
            labels11 == {"11", "maj11", "(maj11)", "add11", "maj7(add11)",
                         "(maj7)(add11)", "7(add11)"}
            labels9 == {"9", "maj9", "(maj9)", "add9"}
            labels7 == {"7", "maj7", "(maj7)"}
        IN  /\ thirteenth => outcome \in labels13
            /\ (~thirteenth /\ eleventh) => outcome \in labels11
            /\ (~thirteenth /\ ~eleventh /\ ninth) => outcome \in labels9
            /\ (~thirteenth /\ ~eleventh /\ ~ninth /\ seventh)
                   => outcome \in labels7
            /\ (~thirteenth /\ ~eleventh /\ ~ninth /\ ~seventh) => outcome = ""
            /\ (~seventh /\ thirteenth) => outcome = "add13"
            /\ (~seventh /\ ~thirteenth /\ eleventh) => outcome = "add11"
            /\ (~seventh /\ ~thirteenth /\ ~eleventh /\ ninth)
                   => outcome = "add9"
            /\ subject.intervals
                   = <<I.PERFECT_UNISON, I.MAJOR_THIRD, I.PERFECT_FIFTH,
                       I.MINOR_SEVENTH, I.MAJOR_NINTH>> => outcome = "9"

\* C16 witness: the dominant ninth has been labelled, and so has a chord
\* whose ninth is a major second below a thirteenth.
C16_Witness ==
    /\ pc = "extended_type"
    /\ \/ /\ subject.intervals
                = <<IntervalConstants.PERFECT_UNISON, IntervalConstants.MAJOR_THIRD,
                    IntervalConstants.PERFECT_FIFTH, IntervalConstants.MINOR_SEVENTH,
                    IntervalConstants.MAJOR_NINTH>>
          /\ outcome = "9"
       \/ /\ subject.intervals
                = <<IntervalConstants.MAJOR_SECOND, IntervalConstants.MAJOR_THIRD,
                    IntervalConstants.MINOR_SEVENTH,
                    IntervalConstants.MAJOR_THIRTEENTH>>
          /\ outcome = "13(no11)"

\* C17: from_notes takes the first note of a chord listed in root position
\* as the root: C,E,G is the major chord on C, A,C,E,G is named Am7,
\* C,E,G,B Cmaj7, G,B,D,F,A G9 and G,B,D,F,A,C,E G13.
C17_FirstNoteOfRootPositionIsRoot ==
    LET N(letter) == NoteName_new(letter, "Natural")
        name(letter, quality, extended) ==
            <<[letter |-> letter, accidental |-> "Natural"], quality, extended>>
    IN  /\ pc = "from_notes" => subject.root = argument[1]
        /\ (pc = "from_notes" /\ argument = <<N("C"), N("E"), N("G")>>)
               => subject = Chord_new(N("C"),
                                      <<IntervalConstants.PERFECT_UNISON,
                                        IntervalConstants.MAJOR_THIRD,
                                        IntervalConstants.PERFECT_FIFTH>>)
        /\ pc = "from_notes" =>
               /\ argument = <<N("A"), N("C"), N("E"), N("G")>>
                      => abbreviated_name(subject) = name("A", "m", "7")
               /\ argument = <<N("C"), N("E"), N("G"), N("B")>>
                      => abbreviated_name(subject) = name("C", "", "maj7")
               /\ argument = <<N("G"), N("B"), N("D"), N("F"), N("A")>>
                      => abbreviated_name(subject) = name("G", "", "9")
               /\ argument = <<N("G"), N("B"), N("D"), N("F"), N("A"),
                               N("C"), N("E")>>
                      => abbreviated_name(subject) = name("G", "", "13")

\* C17 witness: A,C,E,G, where A and C score alike in the fold, has been
\* made a chord on A.
C17_Witness ==
    /\ pc = "from_notes"
    /\ argument = <<NoteName_new("A", "Natural"), NoteName_new("C", "Natural"),
                    NoteName_new("E", "Natural"), NoteName_new("G", "Natural")>>
    /\ subject.root = NoteName_new("A", "Natural")

-----------------------------------------------------------------------------
(* Harmonic function                                                        *)

Chord_major(root) ==
    Chord_new(root, <<IntervalConstants.PERFECT_UNISON,
                      IntervalConstants.MAJOR_THIRD,
                      IntervalConstants.PERFECT_FIFTH>>)

Chord_minor(root) ==
    Chord_new(root, <<IntervalConstants.PERFECT_UNISON,
                      IntervalConstants.MINOR_THIRD,
                      IntervalConstants.PERFECT_FIFTH>>)

Chord_diminished(root) ==
    Chord_new(root, <<IntervalConstants.PERFECT_UNISON,
                      IntervalConstants.MINOR_THIRD,
                      IntervalConstants.DIMINISHED_FIFTH>>)

\* HarmonicFunction: all() in order, and the triggers, associates and
\* dissonances of each function; a dissonance is a degree with the degree
\* that must accompany it, 0 when it needs none.
HarmonicFunction ==
    [all |-> <<"Tonic", "Subdominant", "Dominant">>,
     triggers |-> [Tonic |-> {1, 3}, Subdominant |-> {4, 6},
                   Dominant |-> {5, 7}],
     associates |-> [Tonic |-> {5, 6}, Subdominant |-> {1, 2},
                     Dominant |-> {2}],
     dissonances |-> [Tonic |-> {<<5, 6>>, <<7, 0>>},
                      Subdominant |-> {<<1, 2>>, <<3, 0>>},
                      Dominant |-> {<<4, 0>>, <<6, 0>>}]]

\* HarmonicFunction::detect_by_scale_degrees on a list of degree steps: every
\* degree adds 8, 4 or 1 to a function's score, by the first of trigger,
\* associate and dissonance that holds; None when no score is positive, else
\* the last function of all() with the highest score (Iterator::max_by_key).
detect_by_scale_degrees(simple_degrees) ==
    LET contains(degree) ==
            \E i \in DOMAIN simple_degrees : simple_degrees[i] = degree
        points(hf, degree) ==
            IF degree \in HarmonicFunction.triggers[hf] THEN 8
            ELSE IF degree \in HarmonicFunction.associates[hf] THEN 4
            ELSE IF \E d \in HarmonicFunction.dissonances[hf] :
                        d[1] = degree /\ (d[2] = 0 \/ contains(d[2]))
                 THEN 1
                 ELSE 0
        Sum[k \in 0..Len(simple_degrees)] ==
            [hf \in {"Tonic", "Subdominant", "Dominant"} |->
                IF k = 0 THEN 0
                ELSE Sum[k - 1][hf] + points(hf, simple_degrees[k])]
        score == Sum[Len(simple_degrees)]
        all == HarmonicFunction.all
        best == {i \in DOMAIN all :
                    \A j \in DOMAIN all : score[all[j]] <= score[all[i]]}
    IN  IF \A i \in DOMAIN all : score[all[i]] <= 0 THEN None
        ELSE Some(all[CHOOSE i \in best : \A j \in best : j <= i])

\* Scale::harmonic_function: the degrees of the chord's notes that degree_of
\* answers, in the order of the notes, handed to detect_by_scale_degrees;
\* a degree_of that aborts aborts the call.
harmonic_function(scale, chord) ==
    LET degrees == [i \in DOMAIN chord.intervals |->
                       degree_of(scale, notes(chord.root, chord.intervals)[i])]
        aborts == {i \in DOMAIN degrees : IsPanic(degrees[i])}
        scale_degrees == SelectSeq(degrees, LAMBDA d : d # None)
    IN  IF aborts # {} THEN degrees[First(aborts)]
        ELSE detect_by_scale_degrees(
                 [i \in DOMAIN scale_degrees |-> scale_degrees[i].some])

-----------------------------------------------------------------------------
(* Scenario: a scale is asked for the harmonic function of a triad          *)

\* The scale is any registry scale on any note name; the chord is a major,
\* minor or diminished triad whose notes are among the 35 note names.
InitFunction ==
    /\ pc = "scale_and_chord"
    /\ subject \in {Scale_new(t, REGISTRY[k]) :
                        t \in ValidNoteNames, k \in DOMAIN REGISTRY}
    /\ argument \in
           {c \in UNION {{Chord_major(r), Chord_minor(r), Chord_diminished(r)} :
                            r \in ValidNoteNames} :
               \A i \in DOMAIN c.intervals :
                   notes(c.root, c.intervals)[i] \in ValidNoteNames}
    /\ outcome = Idle
    /\ pitch = Idle /\ semitone_offset = Idle /\ result = Idle
    /\ note = Idle /\ operand = Idle /\ derived = Idle
    /\ followup = Idle /\ readback = Idle
    /\ ia = Idle /\ ib = Idle /\ ic = Idle /\ isum = Idle

\* scale.harmonic_function(&chord)
ScaleHarmonicFunction ==
    /\ pc = "scale_and_chord"
    /\ outcome' = harmonic_function(subject, argument)
    /\ pc' = "harmonic_function"
    /\ UNCHANGED <<subject, argument>>
    /\ UNCHANGED <<transposeVars, noteVars, intervalVars>>

NextFunction == ScaleHarmonicFunction

SpecFunction == InitFunction /\ [][NextFunction]_vars

\* C18: in a major scale whose notes are among the 35 note names the
\* diatonic triads have the functions Tonic, Subdominant, Dominant,
\* Subdominant, Dominant, Tonic, Dominant on the degrees 1 to 7 (minor
\* triads on 2, 3 and 6, a diminished triad on 7), and in C major the D flat
\* major chord is Subdominant and the E flat minor chord is Dominant.
C18_FunctionOfTriads ==
    (/\ pc = "harmonic_function"
     /\ subject.definition.name = "Ionian"
     /\ \A i \in 1..7 : Scale_notes(subject)[i] \in ValidNoteNames) =>
        LET scale_notes == Scale_notes(subject)
            triad == <<Chord_major(scale_notes[1]), Chord_minor(scale_notes[2]),
                       Chord_minor(scale_notes[3]), Chord_major(scale_notes[4]),
                       Chord_major(scale_notes[5]), Chord_minor(scale_notes[6]),
                       Chord_diminished(scale_notes[7])>>
            function == <<"Tonic", "Subdominant", "Dominant", "Subdominant",
                          "Dominant", "Tonic", "Dominant">>
        IN  /\ \A d \in 1..7 :
                   argument = triad[d] => outcome = Some(function[d])
            /\ subject.tonic = NoteName_new("C", "Natural") =>
                   /\ argument = Chord_major(NoteName_new("D", "Flat"))
                          => outcome = Some("Subdominant")
                   /\ argument = Chord_minor(NoteName_new("E", "Flat"))
                          => outcome = Some("Dominant")

-----------------------------------------------------------------------------
(* Parsing                                                                  *)
(* A &str is a sequence of characters.  An ASCII character is written as    *)
(* itself and takes one byte; a character outside ASCII is written by its   *)
(* code point: U+266D, U+266E and U+266F (the flat, natural and sharp       *)
(* signs) take three bytes, U+1D12A and U+1D12B (the double sharp and       *)
(* double flat signs) take four.                                            *)

Ok(value) == [ok |-> value]
Err(error) == [err |-> error]
IsOk(r) == DOMAIN r = {"ok"}

\* The number of bytes of the first k characters of s; str::len is
\* byte_offset(s, Len(s)).
byte_offset(s, k) ==
    LET len_utf8(c) ==
            IF c \in {"U+266D", "U+266E", "U+266F"} THEN 3
            ELSE IF c \in {"U+1D12A", "U+1D12B"} THEN 4
            ELSE 1
        bytes[i \in 0..Len(s)] ==
            IF i = 0 THEN 0 ELSE bytes[i - 1] + len_utf8(s[i])
    IN  bytes[k]

\* &s[begin..end] on byte indices: Ok of the slice, or the abort when an
\* index is beyond the end or does not fall on a character boundary.
byte_slice(s, begin, end) ==
    LET boundary(n) == {k \in 0..Len(s) : byte_offset(s, k) = n}
    IN  IF begin > end \/ boundary(begin) = {} \/ boundary(end) = {}
        THEN Panic("byte index is not a char boundary")
        ELSE Ok(SubSeq(s, First(boundary(begin)) + 1, First(boundary(end))))

\* str::parse for an integer type with the given range: an optional plus
\* sign, or minus sign for a signed type, then at least one decimal digit,
\* and a value within the range.
parse_int(s, min, max) ==
    LET digit == [c \in {"0", "1", "2", "3", "4", "5", "6", "7", "8", "9"} |->
                     CASE c = "0" -> 0 [] c = "1" -> 1 [] c = "2" -> 2
                       [] c = "3" -> 3 [] c = "4" -> 4 [] c = "5" -> 5
                       [] c = "6" -> 6 [] c = "7" -> 7 [] c = "8" -> 8
                       [] c = "9" -> 9]
        negative == min < 0 /\ s # <<>> /\ s[1] = "-"
        digits == IF negative \/ (s # <<>> /\ s[1] = "+") THEN Tail(s) ELSE s
        value[k \in 0..Len(digits)] ==
            IF k = 0 THEN 0 ELSE 10 * value[k - 1] + digit[digits[k]]
        number == IF negative THEN -value[Len(digits)] ELSE value[Len(digits)]
    IN  IF digits = <<>> \/ \E k \in DOMAIN digits : digits[k] \notin DOMAIN digit
        THEN Err("ParseIntError")
        ELSE IF number < min \/ number > max THEN Err("ParseIntError")
        ELSE Ok(number)

\* Letter::from_str, with Letter::from_char.
Letter_from_str(s) ==
    LET from_char(c) ==
            CASE c \in {"C", "c"} -> Ok("C") [] c \in {"D", "d"} -> Ok("D")
              [] c \in {"E", "e"} -> Ok("E") [] c \in {"F", "f"} -> Ok("F")
              [] c \in {"G", "g"} -> Ok("G") [] c \in {"A", "a"} -> Ok("A")
              [] c \in {"B", "b"} -> Ok("B")
              [] OTHER -> Err("Invalid letter")
    IN  IF byte_offset(s, Len(s)) # 1 THEN Err("InvalidNoteName")
        ELSE IF from_char(s[1]) = Err("Invalid letter")
             THEN Err("InvalidNoteName")
             ELSE from_char(s[1])

Accidental_from_str(s) ==
    CASE s \in {<<"b">>, <<"U+266D">>} -> Ok("Flat")
      [] s \in {<<"#">>, <<"U+266F">>} -> Ok("Sharp")
      [] s \in {<<"n">>, <<"U+266E">>} -> Ok("Natural")
      [] s \in {<<"U+266D", "U+266D">>, <<"b", "b">>, <<"U+1D12B">>}
             -> Ok("DoubleFlat")
      [] s \in {<<"U+266F", "U+266F">>, <<"#", "#">>, <<"U+1D12A">>}
             -> Ok("DoubleSharp")
      [] OTHER -> Err("InvalidAccidental")

\* NoteName::from_str: the first byte is the letter, the rest the accidental.
NoteName_from_str(s) ==
    IF s = <<>> THEN Err("InvalidNoteName")
    ELSE
        LET first == byte_slice(s, 0, 1)
            letter == Letter_from_str(first.ok)
            rest == byte_slice(s, 1, byte_offset(s, Len(s)))
            accidental == IF byte_offset(s, Len(s)) > 1
                          THEN Accidental_from_str(rest.ok)
                          ELSE Ok("Natural")
        IN  IF IsPanic(first) THEN first
            ELSE IF ~IsOk(letter) THEN letter
            ELSE IF ~IsOk(accidental) THEN accidental
            ELSE Ok(NoteName_new(letter.ok, accidental.ok))

\* Pitch::from_str: the string is split one byte after the start of its last
\* character that is neither an ASCII digit nor a minus sign.
Pitch_from_str(s) ==
    LET octave_chars == {"0", "1", "2", "3", "4", "5", "6", "7", "8", "9", "-"}
        found == {k \in DOMAIN s : s[k] \notin octave_chars}
        mid == IF found = {} THEN 0
               ELSE byte_offset(s, (CHOOSE k \in found :
                                        \A j \in found : j <= k) - 1) + 1
        note_part == byte_slice(s, 0, mid)
        octave_part == byte_slice(s, mid, byte_offset(s, Len(s)))
        octave == parse_int(octave_part.ok, -128, 127)
        name == NoteName_from_str(note_part.ok)
    IN  IF IsPanic(note_part) THEN note_part
        ELSE IF note_part.ok = <<>> \/ octave_part.ok = <<>>
             THEN Err("InvalidPitch")
        ELSE IF ~IsOk(octave) THEN Err("InvalidPitch")
        ELSE IF ~IsOk(name) THEN name
        ELSE Ok([name |-> name.ok, octave |-> octave.ok])

\* Interval::from_str: a quality letter and a size from 1 to 13; the only
\* pair it rejects is a perfect quality on a size that is not perfect.
Interval_from_str(s) ==
    LET size_str == byte_slice(s, 1, byte_offset(s, Len(s)))
        quality == CASE s[1] = "P" -> Ok("Perfect")
                     [] s[1] = "M" -> Ok("Major")
                     [] s[1] = "m" -> Ok("Minor")
                     [] s[1] = "A" -> Ok("Augmented")
                     [] s[1] = "d" -> Ok("Diminished")
                     [] OTHER -> Err("InvalidInterval")
        size == parse_int(size_str.ok, 0, 255)
        is_perfect_size(n) == n \in {1, 4, 5, 8, 11, 12}
    IN  IF byte_offset(s, Len(s)) < 2 THEN Err("InvalidInterval")
        ELSE IF IsPanic(size_str) THEN size_str
        ELSE IF ~IsOk(quality) THEN quality
        ELSE IF ~IsOk(size) \/ size.ok \notin 1..13
             THEN Err("InvalidInterval")
        ELSE IF quality.ok = "Perfect" /\ ~is_perfect_size(size.ok)
             THEN Err("InvalidInterval")
        ELSE Ok([quality |-> quality.ok, size |-> size.ok])

\* is_valid_note, the validator of the note! and pitch! macros, works on
\* bytes.  A byte cast to char is a code point up to U+00FF, so the match
\* arms for the flat, sharp, natural and double signs outside ASCII never
\* apply and a byte of such a sign falls to the last arm.
is_valid_note(s, check_octave) ==
    LET len == byte_offset(s, Len(s))
        bytes(i) ==
            LET k == CHOOSE k \in DOMAIN s :
                         byte_offset(s, k - 1) <= i /\ i < byte_offset(s, k)
            IN  IF byte_offset(s, k) - byte_offset(s, k - 1) = 1 THEN s[k]
                ELSE "0x80..0xFF"
        is_ascii_digit(c) ==
            c \in {"0", "1", "2", "3", "4", "5", "6", "7", "8", "9"}
        valid_letter ==
            bytes(0) \in {"C", "c", "D", "d", "E", "e", "F", "f", "G", "g",
                          "A", "a", "B", "b"}
        stops == {i \in 1..(len - 1) :
                      is_ascii_digit(bytes(i)) \/ bytes(i) = "-"}
        note_end == IF stops = {} THEN len
                    ELSE CHOOSE i \in stops : \A j \in stops : i <= j
        accidental ==
            IF note_end > 1
            THEN IF bytes(1) \in {"b", "#", "n"}
                 THEN IF note_end > 2 /\ bytes(1) = bytes(2)
                      THEN bytes(1) \in {"b", "#"} /\ note_end = 3
                      ELSE note_end = 2
                 ELSE FALSE
            ELSE ~check_octave
        pos == IF bytes(note_end) = "-" THEN note_end + 1 ELSE note_end
        octave ==
            IF check_octave /\ note_end < len
            THEN pos < len /\ \A i \in pos..(len - 1) : is_ascii_digit(bytes(i))
            ELSE TRUE
    IN  IF len = 0 THEN FALSE
        ELSE IF ~valid_letter THEN FALSE
        ELSE IF ~accidental THEN FALSE
        ELSE octave

-----------------------------------------------------------------------------
(* Scenario: a string is parsed as a note name, a pitch or an interval      *)

\* Largest number of characters of a parsed string.
MaxInputLen == 3

\* The input is any string of at most MaxInputLen characters over note
\* letters, interval qualities, accidental signs in ASCII and outside it,
\* digits and the minus sign.
InitParse ==
    /\ pc = "str"
    /\ subject = Idle
    /\ argument \in UNION {[1..n -> {"C", "P", "M", "m", "X", "#", "b",
                                     "U+266F", "U+1D12A", "-",
                                     "0", "1", "2", "3", "4", "5"}] :
                              n \in 0..MaxInputLen}
    /\ outcome = Idle
    /\ pitch = Idle /\ semitone_offset = Idle /\ result = Idle
    /\ note = Idle /\ operand = Idle /\ derived = Idle
    /\ followup = Idle /\ readback = Idle
    /\ ia = Idle /\ ib = Idle /\ ic = Idle /\ isum = Idle

\* s.parse::<NoteName>()
NoteNameFromStr ==
    /\ pc = "str"
    /\ outcome' = NoteName_from_str(argument)
    /\ pc' = "note_name_from_str"
    /\ UNCHANGED <<subject, argument>>
    /\ UNCHANGED <<transposeVars, noteVars, intervalVars>>

\* s.parse::<Pitch>()
PitchFromStr ==
    /\ pc = "str"
    /\ outcome' = Pitch_from_str(argument)
    /\ pc' = "pitch_from_str"
    /\ UNCHANGED <<subject, argument>>
    /\ UNCHANGED <<transposeVars, noteVars, intervalVars>>

\* s.parse::<Interval>()
IntervalFromStr ==
    /\ pc = "str"
    /\ outcome' = Interval_from_str(argument)
    /\ pc' = "interval_from_str"
    /\ UNCHANGED <<subject, argument>>
    /\ UNCHANGED <<transposeVars, noteVars, intervalVars>>

\* is_valid_note(s, check_octave), as the note! macro (check_octave false)
\* and the pitch! macro (check_octave true) call it.
IsValidNote ==
    /\ pc = "str"
    /\ \E check_octave \in BOOLEAN :
           /\ subject' = check_octave
           /\ outcome' = is_valid_note(argument, check_octave)
    /\ pc' = "is_valid_note"
    /\ UNCHANGED argument
    /\ UNCHANGED <<transposeVars, noteVars, intervalVars>>

NextParse == NoteNameFromStr \/ PitchFromStr \/ IntervalFromStr \/ IsValidNote

SpecParse == InitParse /\ [][NextParse]_vars

\* C19: parsing an interval name gives Err(InvalidInterval) when it is
\* empty, when its quality letter is unknown, when its size is 0, when it
\* is perfect with a second, third, sixth or seventh, and when it is major
\* or minor with a unison, fourth, fifth or octave.
C19_ImpossibleIntervalIsError ==
    pc = "interval_from_str" =>
        LET size == IF argument = <<>> THEN Err("ParseIntError")
                    ELSE parse_int(Tail(argument), 0, 255)
            sized(S) == IsOk(size) /\ size.ok \in S
        IN  (\/ argument = <<>>
             \/ /\ argument # <<>>
                /\ \/ argument[1] = "X" /\ sized(1..13)
                   \/ argument[1] \in {"P", "M", "m"} /\ sized({0})
                   \/ argument[1] = "P" /\ sized({2, 3, 6, 7})
                   \/ argument[1] \in {"M", "m"} /\ sized({1, 4, 5, 8}))
                => outcome = Err("InvalidInterval")

\* C20: parsing a note name or a pitch never aborts: every string, also one
\* that starts with or contains a character of several bytes, gives Ok or a
\* ParseError.
C20_ParsingNeverAborts ==
    pc \in {"note_name_from_str", "pitch_from_str"} =>
        /\ ~IsPanic(outcome)
        /\ \/ IsOk(outcome)
           \/ outcome \in {Err("InvalidNoteName"), Err("InvalidAccidental"),
                           Err("InvalidPitch")}

-----------------------------------------------------------------------------
(* Further properties of transpose                                          *)

\* C21: for a source pitch in MIDI range and a non-zero offset whose target
\* is in MIDI range, no 8-bit signed operation of transpose overflows: the
\* call never ends in an overflow abort.
C21_NoOverflowInMidiRange ==
    (/\ Returned
     /\ semitone_offset # 0
     /\ InMidiRange(Pitch_midi_true(pitch))
     /\ InMidiRange(Pitch_midi_true(pitch) + semitone_offset))
        => result # Panic("attempt to add with overflow")

\* C23: C4 transposed up by 1 to 12 semitones spells the ascending
\* chromatic scale with sharps, C#4 to C5; C5 transposed down by 1 to 12
\* semitones spells the descending chromatic scale with flats, B4 to C4.
C23_ChromaticScales ==
    LET up == <<Pitch_new("C", "Sharp", 4), Pitch_new("D", "Natural", 4),
                Pitch_new("D", "Sharp", 4), Pitch_new("E", "Natural", 4),
                Pitch_new("F", "Natural", 4), Pitch_new("F", "Sharp", 4),
                Pitch_new("G", "Natural", 4), Pitch_new("G", "Sharp", 4),
                Pitch_new("A", "Natural", 4), Pitch_new("A", "Sharp", 4),
                Pitch_new("B", "Natural", 4), Pitch_new("C", "Natural", 5)>>
        down == <<Pitch_new("B", "Natural", 4), Pitch_new("B", "Flat", 4),
                  Pitch_new("A", "Natural", 4), Pitch_new("A", "Flat", 4),
                  Pitch_new("G", "Natural", 4), Pitch_new("G", "Flat", 4),
                  Pitch_new("F", "Natural", 4), Pitch_new("E", "Natural", 4),
                  Pitch_new("E", "Flat", 4), Pitch_new("D", "Natural", 4),
                  Pitch_new("D", "Flat", 4), Pitch_new("C", "Natural", 4)>>
    IN  \A k \in 1..12 :
            /\ Called("C", "Natural", 4, k) => result = up[k]
            /\ Called("C", "Natural", 5, -k) => result = down[k]

\* C23 witness: C4 up a major sixth has returned A4 and C5 down a major
\* third has returned Ab4.
C23_Witness ==
    \/ Called("C", "Natural", 4, 9) /\ result = Pitch_new("A", "Natural", 4)
    \/ Called("C", "Natural", 5, -4) /\ result = Pitch_new("A", "Flat", 4)

\* C26: in the scan over the letters C to B and, within a letter, the
\* accidentals from double flat to double sharp, a surviving candidate
\* replaces the running best exactly when the polarity guard admits it and
\* its total penalty is at most that of the running best candidate; the
\* call returns the last admitted candidate of lowest total penalty.
C26_LastAdmittedOfLowestPenalty ==
    (/\ Returned
     /\ semitone_offset # 0
     /\ result # Panic("attempt to add with overflow")) =>
        LET guess(i) == pitch_guess(pitch, semitone_offset, candidate_letter(i),
                                    candidate_accidental(i))
            best(n) == scan(pitch, semitone_offset, n).best_pitch
            penalty(q) == total_penalty(pitch, semitone_offset,
                                        NoteName_letter(q.name),
                                        NoteName_accidental(q.name))
            admitted == {i \in Candidates : Survivor(i) /\ Admitted(i)}
            lowest == {i \in admitted :
                          \A j \in admitted : PenaltyOf(i) <= PenaltyOf(j)}
        IN  /\ \A n \in Candidates :
                   Survivor(n) =>
                       (best(n) = guess(n)
                            <=> /\ Admitted(n)
                                /\ \/ best(n - 1) = None
                                   \/ PenaltyOf(n) <= penalty(best(n - 1)))
            /\ admitted # {} =>
                   result = guess(CHOOSE i \in lowest : \A j \in lowest : j <= i)

\* C28: the two implementations of chromatic transposition agree: what
\* the method of Pitch returns or aborts with is an outcome of
\* ChromaticTransposer::transpose on the same pitch and offset, and what
\* ChromaticTransposer::transpose returns or aborts with is an outcome of
\* the method of Pitch.
C28_TwoTransposersAgree ==
    /\ pc = "returned_by_pitch"
           => result \in transpose_outcomes(pitch, semitone_offset)
    /\ pc = "returned"
           => result \in Pitch_transpose(pitch, semitone_offset)

\* C28 witness: the method of Pitch has returned C#4 for C4 up a semitone,
\* which is what ChromaticTransposer::transpose returns.
C28_Witness ==
    /\ pc = "returned_by_pitch"
    /\ pitch = Pitch_new("C", "Natural", 4)
    /\ semitone_offset = 1
    /\ result = Pitch_new("C", "Sharp", 4)
    /\ result = transpose(pitch, semitone_offset)

-----------------------------------------------------------------------------
(* Further properties of chords                                             *)

\* C22: transposed(interval) returns a value whose root is the root plus
\* the interval and whose intervals are those of the original, element for
\* element; the chord it was called on keeps its root and its intervals.
C22_TransposedIsNewValue ==
    /\ [](pc = "transposed" =>
              /\ outcome.root = NoteName_add(subject.root, argument)
              /\ Len(outcome.intervals) = Len(subject.intervals)
              /\ \A i \in DOMAIN subject.intervals :
                     outcome.intervals[i] = subject.intervals[i])
    /\ [][pc' = "transposed" => subject' = subject]_vars

\* C22 witness: the C major chord built from C, E, G has been transposed by
\* a major third to a chord on E, and is still on C.
C22_Witness ==
    /\ pc = "transposed"
    /\ argument = IntervalConstants.MAJOR_THIRD
    /\ subject = Chord_major(NoteName_new("C", "Natural"))
    /\ outcome = Chord_major(NoteName_new("E", "Natural"))

\* C29: the notes of a chord built from a list of note names and a root are
\* the list itself, in the same order.
C29_NotesOfFromNotes ==
    pc = "chord_notes" =>
        /\ Len(outcome) = Len(argument)
        /\ \A i \in DOMAIN argument : outcome[i] = argument[i]

\* C29 witness: the notes C, E, G have been read back from the chord built
\* on the root E, whose intervals are a descending third, a unison and a
\* third.
C29_Witness ==
    /\ pc = "chord_notes"
    /\ argument = <<NoteName_new("C", "Natural"), NoteName_new("E", "Natural"),
                    NoteName_new("G", "Natural")>>
    /\ subject.root = NoteName_new("E", "Natural")
    /\ subject.intervals[1].fifths = -4
    /\ outcome = argument

-----------------------------------------------------------------------------
(* Further properties of note names                                         *)

\* C30: for a note name and an interval whose sum is one of the 35 note
\* names, base_midi_number() of the sum is congruent modulo 12 to
\* base_midi_number() of the note plus the semitones of the interval.
C30_FifthsAgreeWithSemitones ==
    (pc = "acted" /\ derived \in ValidNoteNames) =>
        (NoteName_base_midi_number(derived)
            - (NoteName_base_midi_number(note) + Interval_semitones(operand)))
                % 12 = 0

\* C30 witness: B plus a perfect fifth is F sharp, whose base_midi_number 6
\* is 11 + 7 less an octave.
C30_Witness ==
    /\ pc = "acted"
    /\ note = NoteName_new("B", "Natural")
    /\ operand = IntervalConstants.PERFECT_FIFTH
    /\ derived = NoteName_new("F", "Sharp")
    /\ NoteName_base_midi_number(derived) = 6
    /\ NoteName_base_midi_number(note) + Interval_semitones(operand) = 18

-----------------------------------------------------------------------------
(* Further properties of parsing                                            *)

\* C24: for every ASCII string the validator of the pitch! macro,
\* is_valid_note(s, true), gives true exactly when s.parse::<Pitch>() gives
\* Ok: "C4" and "C-2" are accepted by both, "C#" and "H4" by neither.
C24_ValidatorAgreesWithParser ==
    (/\ pc = "is_valid_note"
     /\ subject = TRUE
     /\ \A k \in DOMAIN argument : argument[k] \notin {"U+266F", "U+1D12A"})
        => (outcome <=> IsOk(Pitch_from_str(argument)))

-----------------------------------------------------------------------------
(* Further properties of scales                                             *)

\* C25: for every definition of the registry and every pitch class 0..11
\* the bitmask computed by from_intervals from the definition's intervals
\* and the stored bitmask answer contains alike, and the answer is true
\* exactly when some interval of the definition has that many semitones
\* modulo 12.
C25_ComputedBitmaskIsStoredBitmask ==
    pc = "from_intervals" =>
        LET k == CHOOSE k \in DOMAIN REGISTRY : REGISTRY[k] = subject.definition
            intervals == subject.definition.intervals
        IN  \A pitch_class \in 0..11 :
                /\ ScaleBitmask_contains(outcome, pitch_class)
                       = ScaleBitmask_contains(REGISTRY_bitmask[k], pitch_class)
                /\ ScaleBitmask_contains(REGISTRY_bitmask[k], pitch_class)
                       = (\E i \in DOMAIN intervals :
                              Interval_semitones(intervals[i]) % 12 = pitch_class)

-----------------------------------------------------------------------------
(* Properties of the neo-Riemannian transformations                          *)

\* C27: transform_p maps a major triad to the minor triad on the same root
\* and a minor triad to the major triad on the same root: C major gives the
\* notes C, E flat, G and A minor gives A, C sharp, E, in the order root,
\* third, fifth.
C27_ParallelOfTriad ==
    pc = "transform_p" =>
        LET C == NoteName_new("C", "Natural")
            A == NoteName_new("A", "Natural")
        IN  /\ subject = Chord_major(subject.root)
                => outcome = Chord_minor(subject.root)
            /\ subject = Chord_minor(subject.root)
                => outcome = Chord_major(subject.root)
            /\ subject = Chord_major(C)
                => notes(outcome.root, outcome.intervals)
                       = <<C, NoteName_new("E", "Flat"), NoteName_new("G", "Natural")>>
            /\ subject = Chord_minor(A)
                => notes(outcome.root, outcome.intervals)
                       = <<A, NoteName_new("C", "Sharp"), NoteName_new("E", "Natural")>>

\* C27 witness: the parallel of A minor has been computed.
C27_Witness ==
    /\ pc = "transform_p"
    /\ subject = Chord_minor(NoteName_new("A", "Natural"))
    /\ outcome = Chord_major(NoteName_new("A", "Natural"))

====
